---- MODULE Spec2Model ----
(***************************************************************************)
(* Cash-flow ledger (dds_app): the SQLite store of db.py, the queries of   *)
(* repository.py and the request handlers of server.py.                    *)
(*                                                                         *)
(* Raw request text (form fields, URL ids) is a sequence of one-character  *)
(* strings, so that int(), Decimal() and str.strip() are modelled by what  *)
(* they do to the characters.  Stored names, dates and comments are such   *)
(* sequences too.                                                          *)
(***************************************************************************)
EXTENDS Integers, Sequences, FiniteSets, TLC

VARIABLES statuses, types, categories, subcategories, cashflows, seq,
          request, response, conns

dbvars == <<statuses, types, categories, subcategories, cashflows, seq>>
vars == <<statuses, types, categories, subcategories, cashflows, seq,
          request, response, conns>>

-----------------------------------------------------------------------------
(* Bound of the model: the rows the requests of a run insert, over all    *)
(* tables.                                                                 *)
MaxRows == 2

-----------------------------------------------------------------------------
(* Text helpers: str.strip(), str.replace().                               *)

DigitChars == <<"0", "1", "2", "3", "4", "5", "6", "7", "8", "9">>

IsDigit(c) == \E d \in 1..10 : DigitChars[d] = c

DigitVal(c) == (CHOOSE d \in 1..10 : DigitChars[d] = c) - 1

\* the decimal text of a natural number below 100 (how a client writes an id)
ToText(n) == IF n < 10 THEN <<DigitChars[n + 1]>>
             ELSE <<DigitChars[(n \div 10) + 1], DigitChars[(n % 10) + 1]>>

RECURSIVE lstrip(_)
lstrip(t) == IF t # <<>> /\ t[1] = " " THEN lstrip(Tail(t)) ELSE t

RECURSIVE rstrip(_)
rstrip(t) == IF t # <<>> /\ t[Len(t)] = " " THEN rstrip(SubSeq(t, 1, Len(t) - 1)) ELSE t

\* str.strip()
strip(t) == rstrip(lstrip(t))

\* str.replace(" ", "")
remove_spaces(t) == SelectSeq(t, LAMBDA c : c # " ")

\* variant: the commas are left as they are
commas_kept(t) == t

\* str.replace(",", ".")
commas_to_dots(t) == [i \in 1..Len(t) |-> IF t[i] = "," THEN "." ELSE t[i]]

\* str.lower() on the letters the numeric literals use
lower(t) ==
    [i \in 1..Len(t) |->
        CASE t[i] = "N" -> "n" [] t[i] = "A" -> "a" [] t[i] = "I" -> "i"
          [] t[i] = "F" -> "f" [] t[i] = "T" -> "t" [] t[i] = "Y" -> "y"
          [] t[i] = "S" -> "s" [] t[i] = "E" -> "e" [] OTHER -> t[i]]

AllDigits(t) == \A i \in 1..Len(t) : IsDigit(t[i])

RECURSIVE DigitsValue(_)
DigitsValue(t) == IF t = <<>> THEN 0
                  ELSE 10 * DigitsValue(SubSeq(t, 1, Len(t) - 1)) + DigitVal(t[Len(t)])

RECURSIVE strip_zeros(_)
strip_zeros(t) == IF Len(t) > 1 /\ t[1] = "0" THEN strip_zeros(Tail(t)) ELSE t

RECURSIVE Pow10(_)
Pow10(n) == IF n = 0 THEN 1 ELSE 10 * Pow10(n - 1)

RECURSIVE NumDigits(_)
NumDigits(n) == IF n < 10 THEN 1 ELSE 1 + NumDigits(n \div 10)

-----------------------------------------------------------------------------
(* Python values of the handlers.  An integer parsed from text is          *)
(*   [kind |-> "none"]  None,                                              *)
(*   [kind |-> "int"]   an int, val its value,                             *)
(*   [kind |-> "big"]   an int outside SQLite's signed 64-bit INTEGER.     *)
(* Texts of 10 to 19 digits are outside the model's inputs.                *)

None == [kind |-> "none", val |-> 0]
BigInt == [kind |-> "big", val |-> 0]
PyInt(n) == [kind |-> "int", val |-> n]

\* digits from which every integer is beyond 2^63
SQLITE_INT_DIGITS == 19

\* int(text): optional surrounding spaces, optional sign, decimal digits
int(value) ==
    LET s == strip(value)
        signed == s # <<>> /\ s[1] \in {"+", "-"}
        body == IF signed THEN Tail(s) ELSE s
        sig == strip_zeros(body)
    IN  IF body = <<>> \/ ~AllDigits(body) THEN None   \* ValueError
        ELSE IF Len(sig) > SQLITE_INT_DIGITS THEN BigInt
        ELSE PyInt(IF signed /\ s[1] = "-" THEN 0 - DigitsValue(sig) ELSE DigitsValue(sig))

\* server.parse_int: int(value), None on ValueError
parse_int(value) == int(value)

\* Python truthiness of an Optional[int]: None and 0 are falsy
Truthy(p) == p.kind = "big" \/ (p.kind = "int" /\ p.val # 0)

-----------------------------------------------------------------------------
(* decimal.Decimal under the default context.  A finite Decimal keeps its  *)
(* coefficient as digit text (no leading zeros), so that a coefficient     *)
(* beyond the context precision is told by its length.                     *)

\* decimal.getcontext().prec
DECIMAL_PREC == 28

IndexOf(t, c) == IF \E i \in 1..Len(t) : t[i] = c
                 THEN CHOOSE i \in 1..Len(t) : t[i] = c /\ \A j \in 1..(i - 1) : t[j] # c
                 ELSE 0

InvalidDecimal == [kind |-> "invalid", sign |-> 1, digits |-> <<"0">>, exp |-> 0]

\* the numeric string: mant is the text before the exponent mark, expt the text
\* after it (hasexp: there is a mark)
DecimalOfParts(sgn, mant, hasexp, expt) ==
    LET dot == IndexOf(mant, ".")
        fraclen == IF dot = 0 THEN 0 ELSE Len(mant) - dot
        coeff == SelectSeq(mant, LAMBDA c : c # ".")
        edigits == IF expt # <<>> /\ expt[1] \in {"+", "-"} THEN Tail(expt) ELSE expt
    IN  IF \/ coeff = <<>> \/ ~AllDigits(coeff) \/ Len(coeff) < Len(mant) - 1
           \/ (hasexp /\ (edigits = <<>> \/ ~AllDigits(edigits)))
        THEN InvalidDecimal                              \* InvalidOperation
        ELSE [kind |-> "finite", sign |-> sgn, digits |-> strip_zeros(coeff),
              exp |-> (IF expt # <<>> /\ expt[1] = "-" THEN 0 - DigitsValue(edigits)
                       ELSE DigitsValue(edigits)) - fraclen]

\* the text after the sign: a special value or a numeric string
DecimalOfBody(sgn, body) ==
    IF body = <<"n", "a", "n">>
        THEN [kind |-> "nan", sign |-> sgn, digits |-> <<"0">>, exp |-> 0]
    ELSE IF body = <<"s", "n", "a", "n">>
        THEN [kind |-> "snan", sign |-> sgn, digits |-> <<"0">>, exp |-> 0]
    ELSE IF body \in {<<"i", "n", "f">>, <<"i", "n", "f", "i", "n", "i", "t", "y">>}
        THEN [kind |-> "inf", sign |-> sgn, digits |-> <<"0">>, exp |-> 0]
    ELSE IF IndexOf(body, "e") = 0 THEN DecimalOfParts(sgn, body, FALSE, <<>>)
    ELSE DecimalOfParts(sgn, SubSeq(body, 1, IndexOf(body, "e") - 1), TRUE,
                        SubSeq(body, IndexOf(body, "e") + 1, Len(body)))

DecimalOfSigned(s) ==
    IF s # <<>> /\ s[1] = "-" THEN DecimalOfBody(0 - 1, Tail(s))
    ELSE IF s # <<>> /\ s[1] = "+" THEN DecimalOfBody(1, Tail(s))
    ELSE DecimalOfBody(1, s)

\* Decimal(text): [sign] digits [. digits] [e [sign] digits] | [sign] inf | nan | snan
Decimal(value) == DecimalOfSigned(lower(strip(value)))

\* Decimal.quantize(Decimal("0.01"), rounding=ROUND_HALF_UP): the hundredths as
\* [kind |-> "int", val |-> signed hundredths], [kind |-> "big"] (hundredths of
\* more digits than SQLite binds), [kind |-> "nan"] (a quiet NaN
\* passes through) or [kind |-> "raise"] (InvalidOperation: an infinity, a
\* signalling NaN, a coefficient longer than the precision)
quantize(d) ==
    LET n == Len(d.digits)
        shift == 0 - 2 - d.exp
        kept == IF shift >= n THEN <<"0">> ELSE SubSeq(d.digits, 1, n - shift)
        dropped == IF shift > n THEN 0 ELSE DigitVal(d.digits[n - shift + 1])
    IN  IF d.kind = "nan" THEN [kind |-> "nan", val |-> 0]
        ELSE IF d.kind \in {"snan", "inf"} THEN [kind |-> "raise", val |-> 0]
        ELSE IF d.digits = <<"0">> THEN [kind |-> "int", val |-> 0]
        ELSE IF d.exp >= 0 - 2
            THEN IF n + d.exp + 2 > DECIMAL_PREC THEN [kind |-> "raise", val |-> 0]
                 ELSE IF n + d.exp + 2 > SQLITE_INT_DIGITS THEN [kind |-> "big", val |-> 0]
                 ELSE [kind |-> "int",
                       val |-> d.sign * DigitsValue(d.digits) * Pow10(d.exp + 2)]
        ELSE IF Len(kept) > DECIMAL_PREC THEN [kind |-> "raise", val |-> 0]
        ELSE IF Len(kept) > SQLITE_INT_DIGITS THEN [kind |-> "big", val |-> 0]
        ELSE [kind |-> "int",
              val |-> d.sign * (DigitsValue(kept) + (IF dropped >= 5 THEN 1 ELSE 0))]

\* int(dec_value * 100) of the quantized value
CentsOfQuantized(q) ==
    IF q.kind = "raise" THEN [kind |-> "raise", val |-> 0, exc |-> "InvalidOperation"]
    ELSE IF q.kind = "nan"      \* int(Decimal("NaN") * 100)
        THEN [kind |-> "raise", val |-> 0, exc |-> "ValueError"]
    ELSE [kind |-> q.kind, val |-> q.val, exc |-> ""]

CentsOfDecimal(dec_value) ==
    IF dec_value.kind = "invalid" THEN [kind |-> "none", val |-> 0, exc |-> ""]
    ELSE CentsOfQuantized(quantize(dec_value))

CentsOfText(value) ==
    IF value = <<>> THEN [kind |-> "none", val |-> 0, exc |-> ""]
    ELSE CentsOfDecimal(Decimal(commas_to_dots(value)))

\* server.parse_amount: [kind |-> "none"] (None), [kind |-> "int", val |-> cents],
\* [kind |-> "big"] (an integer of cents beyond 64 bits)
\* or [kind |-> "raise", exc |-> the exception that escapes]
parse_amount(value) == CentsOfText(remove_spaces(strip(value)))

-----------------------------------------------------------------------------
(* The store (db.SCHEMA).  A table is a function from the ids of its rows  *)
(* to the rows; seq holds the AUTOINCREMENT counter of each table (the     *)
(* largest id ever given out), so that an id is never used again.          *)

EmptyTable == [i \in {} |-> 0]

\* the starter rows of db.py (the Russian names, transliterated)
DEFAULT_STATUSES == <<"Biznes", "Lichnoe", "Nalog">>
DEFAULT_TYPES == <<"Popolnenie", "Spisanie">>
DEFAULT_CATEGORIES ==
    << <<"Infrastruktura", "Spisanie", <<"VPS", "Proxy">> >>,
       <<"Marketing", "Spisanie", <<"Farpost", "Avito">> >>,
       <<"Prochee", "Popolnenie", <<"Investicii", "Vozvrat dolga">> >> >>

RECURSIVE SumSubcats(_)
SumSubcats(cs) == IF cs = <<>> THEN 0 ELSE Len(cs[1][3]) + SumSubcats(Tail(cs))

\* the counters once db.ensure_initial_data has inserted the starter rows
SeededSeq == [statuses |-> Len(DEFAULT_STATUSES), types |-> Len(DEFAULT_TYPES),
              categories |-> Len(DEFAULT_CATEGORIES),
              subcategories |-> SumSubcats(DEFAULT_CATEGORIES), cashflows |-> 0]

Remove(table, id) == [i \in DOMAIN table \ {id} |-> table[i]]

\* sqlite3 refuses to bind an int outside the signed 64-bit range (OverflowError)
Overflows(p) == p.kind = "big"

\* repository.get_status / get_type / get_category: the row or None
HasRow(table, p) == p.kind = "int" /\ p.val \in DOMAIN table

\* repository.get_subcategory: subcategories JOIN categories, so a subcategory
\* whose category row is gone is not returned
HasSubcategory(subs, cats, p) ==
    HasRow(subs, p) /\ subs[p.val].category_id \in DOMAIN cats

\* variant: the dependency count finds nothing
count_dependencies_none(table, column, value) == 0

\* variant: the dependency count forgets its WHERE clause
count_dependencies_rows(table, column, value) == Cardinality(DOMAIN table)

\* repository.count_dependencies(table, column, value)
count_dependencies(table, column, value) ==
    Cardinality({i \in DOMAIN table : table[i][column] = value})

(* The statements that write.  Each gives [error |-> an IntegrityError was *)
(* raised (UNIQUE or FOREIGN KEY, PRAGMA foreign_keys = ON), and the       *)
(* tables it leaves]; a statement that raises leaves every table as it was.*)

NameTaken(table, name, except) ==
    \E i \in DOMAIN table \ {except} : table[i].name = name

\* INSERT INTO statuses(name) / types(name)
sql_insert_named(table, last, name) ==
    IF NameTaken(table, name, 0) THEN [error |-> TRUE, table |-> table]
    ELSE [error |-> FALSE, table |-> table @@ ((last + 1) :> [name |-> name])]

\* UPDATE statuses / types SET name = ? WHERE id = ?
sql_update_named(table, id, name) ==
    IF id \notin DOMAIN table THEN [error |-> FALSE, table |-> table]
    ELSE IF NameTaken(table, name, id) THEN [error |-> TRUE, table |-> table]
    ELSE [error |-> FALSE, table |-> [table EXCEPT ![id] = [name |-> name]]]

\* variant: the tables carry no UNIQUE constraint over parent and name
SiblingTaken_none(table, column, parent, name, except) == FALSE

\* variant: the constraint is UNIQUE(name), whatever the parent
SiblingTaken_global(table, column, parent, name, except) ==
    \E i \in DOMAIN table \ {except} : table[i].name = name

\* UNIQUE(type_id, name) of categories, UNIQUE(category_id, name) of subcategories
SiblingTaken(table, column, parent, name, except) ==
    \E i \in DOMAIN table \ {except} : table[i][column] = parent /\ table[i].name = name

\* INSERT INTO categories(name, type_id)
sql_insert_category(cats, tys, last, name, type_id) ==
    IF type_id \notin DOMAIN tys \/ SiblingTaken(cats, "type_id", type_id, name, 0)
    THEN [error |-> TRUE, table |-> cats]
    ELSE [error |-> FALSE,
          table |-> cats @@ ((last + 1) :> [name |-> name, type_id |-> type_id])]

\* UPDATE categories SET name = ?, type_id = ? WHERE id = ?
sql_update_category(cats, tys, id, name, type_id) ==
    IF id \notin DOMAIN cats THEN [error |-> FALSE, table |-> cats]
    ELSE IF type_id \notin DOMAIN tys \/ SiblingTaken(cats, "type_id", type_id, name, id)
    THEN [error |-> TRUE, table |-> cats]
    ELSE [error |-> FALSE,
          table |-> [cats EXCEPT ![id] = [name |-> name, type_id |-> type_id]]]

\* INSERT INTO subcategories(name, category_id)
sql_insert_subcategory(subs, cats, last, name, category_id) ==
    IF category_id \notin DOMAIN cats
       \/ SiblingTaken(subs, "category_id", category_id, name, 0)
    THEN [error |-> TRUE, table |-> subs]
    ELSE [error |-> FALSE,
          table |-> subs @@ ((last + 1) :> [name |-> name, category_id |-> category_id])]

\* UPDATE subcategories SET name = ?, category_id = ? WHERE id = ?
sql_update_subcategory(subs, cats, id, name, category_id) ==
    IF id \notin DOMAIN subs THEN [error |-> FALSE, table |-> subs]
    ELSE IF category_id \notin DOMAIN cats
            \/ SiblingTaken(subs, "category_id", category_id, name, id)
    THEN [error |-> TRUE, table |-> subs]
    ELSE [error |-> FALSE,
          table |-> [subs EXCEPT ![id] = [name |-> name, category_id |-> category_id]]]

\* the foreign keys of a cashflows row
CashflowKeysExist(row, sts, tys, cats, subs) ==
    /\ row.status_id \in DOMAIN sts
    /\ row.type_id \in DOMAIN tys
    /\ row.category_id \in DOMAIN cats
    /\ row.subcategory_id \in DOMAIN subs

\* recorded_on DATE: the column has NUMERIC affinity, so a text that is an
\* integer numeral is stored as that integer, written here as "#" and its
\* digits; any other text is stored as it is.  (The forms of the model carry
\* no numeral with a sign, a fraction or an exponent.)
NumericAffinity(t) ==
    IF t # <<>> /\ AllDigits(t) THEN <<"#">> \o strip_zeros(t) ELSE t

\* the row as the table holds it
StoredRow(row) == [row EXCEPT !.recorded_on = NumericAffinity(@)]

\* INSERT INTO cashflows(...)
sql_insert_cashflow(flows, last, row, sts, tys, cats, subs) ==
    IF ~CashflowKeysExist(row, sts, tys, cats, subs) THEN [error |-> TRUE, table |-> flows]
    ELSE [error |-> FALSE, table |-> flows @@ ((last + 1) :> StoredRow(row))]

\* UPDATE cashflows SET ... WHERE id = ?
sql_update_cashflow(flows, id, row, sts, tys, cats, subs) ==
    IF id \notin DOMAIN flows THEN [error |-> FALSE, table |-> flows]
    ELSE IF ~CashflowKeysExist(row, sts, tys, cats, subs)
    THEN [error |-> TRUE, table |-> flows]
    ELSE [error |-> FALSE, table |-> [flows EXCEPT ![id] = StoredRow(row)]]

\* DELETE FROM statuses WHERE id = ?  (cashflows.status_id REFERENCES statuses)
sql_delete_status(sts, flows, id) ==
    IF \E e \in DOMAIN flows : flows[e].status_id = id
    THEN [error |-> TRUE, table |-> sts]
    ELSE [error |-> FALSE, table |-> Remove(sts, id)]

\* DELETE FROM subcategories WHERE id = ?
sql_delete_subcategory(subs, flows, id) ==
    IF \E e \in DOMAIN flows : flows[e].subcategory_id = id
    THEN [error |-> TRUE, table |-> subs]
    ELSE [error |-> FALSE, table |-> Remove(subs, id)]

\* DELETE FROM categories WHERE id = ?  (subcategories go ON DELETE CASCADE)
sql_delete_category(cats, subs, flows, id) ==
    LET gone == {s \in DOMAIN subs : subs[s].category_id = id}
    IN  IF \E e \in DOMAIN flows :
              flows[e].category_id = id \/ flows[e].subcategory_id \in gone
        THEN [error |-> TRUE, categories |-> cats, subcategories |-> subs]
        ELSE [error |-> FALSE, categories |-> Remove(cats, id),
              subcategories |-> [s \in DOMAIN subs \ gone |-> subs[s]]]

\* DELETE FROM types WHERE id = ?  (categories, then subcategories, CASCADE)
sql_delete_type(tys, cats, subs, flows, id) ==
    LET gonecats == {c \in DOMAIN cats : cats[c].type_id = id}
        gonesubs == {s \in DOMAIN subs : subs[s].category_id \in gonecats}
    IN  IF \E e \in DOMAIN flows :
              \/ flows[e].type_id = id
              \/ flows[e].category_id \in gonecats
              \/ flows[e].subcategory_id \in gonesubs
        THEN [error |-> TRUE, types |-> tys, categories |-> cats, subcategories |-> subs]
        ELSE [error |-> FALSE, types |-> Remove(tys, id),
              categories |-> [c \in DOMAIN cats \ gonecats |-> cats[c]],
              subcategories |-> [s \in DOMAIN subs \ gonesubs |-> subs[s]]]

-----------------------------------------------------------------------------
(* Requests and responses.  A form is the POST body: a key the client did  *)
(* not send reads as the empty text (form.get(key, "")).  The messages of  *)
(* the source are Russian; the model carries their English translation.    *)

EmptyForm == [recorded_on |-> <<>>, status_id |-> <<>>, type_id |-> <<>>,
              category_id |-> <<>>, subcategory_id |-> <<>>, amount |-> <<>>,
              comment |-> <<>>, name |-> <<>>]

NoRequest == [route |-> "none", entity |-> "none", id |-> <<>>, form |-> EmptyForm]
NoResponse == [status |-> "none", messages |-> <<>>]

Error(text) == [level |-> "error", text |-> text]
Success(text) == [level |-> "success", text |-> text]

\* server.redirect to /?success=...
redirect(text) == [status |-> "302 Found", messages |-> <<Success(text)>>]

\* the 400 page of the entry form, one message per error
BadRequest(errors) ==
    [status |-> "400 Bad Request",
     messages |-> [i \in 1..Len(errors) |-> Error(errors[i])]]

\* server.not_found
not_found == [status |-> "404 Not Found", messages |-> <<>>]

\* server.render_reference_page(messages)
render_reference_page(messages) == [status |-> "200 OK", messages |-> messages]

\* server.application: any exception that escapes a handler
InternalError == [status |-> "500 Internal Server Error",
                  messages |-> <<Error("Internal server error")>>]

-----------------------------------------------------------------------------
(* server.validate_entry_form, field by field.  Each part gives the        *)
(* exception that escapes it (exc, "" for none), the keys it adds to data  *)
(* and the errors it appends; the tables it reads are its parameters.      *)

NoData == [k \in {} |-> 0]

Part(exc, data, errors) == [exc |-> exc, data |-> data, errors |-> errors]

SameInt(p, n) == p.kind = "int" /\ p.val = n

check_recorded_on(form) ==
    LET recorded_on == strip(form.recorded_on)
    IN  IF recorded_on = <<>> THEN Part("", NoData, <<"Operation date is required">>)
        ELSE Part("", "recorded_on" :> recorded_on, <<>>)

check_status(form, sts) ==
    LET status_id == parse_int(form.status_id)
    IN  IF ~Truthy(status_id) THEN Part("", NoData, <<"Status is required">>)
        ELSE IF Overflows(status_id) THEN Part("OverflowError", NoData, <<>>)
        ELSE IF ~HasRow(sts, status_id)
            THEN Part("", NoData, <<"A nonexistent status is selected">>)
        ELSE Part("", "status_id" :> status_id.val, <<>>)

check_type(form, tys) ==
    LET type_id == parse_int(form.type_id)
    IN  IF ~Truthy(type_id) THEN Part("", NoData, <<"Type is required">>)
        ELSE IF Overflows(type_id) THEN Part("OverflowError", NoData, <<>>)
        ELSE IF ~HasRow(tys, type_id)
            THEN Part("", NoData, <<"A nonexistent type is selected">>)
        ELSE Part("", "type_id" :> type_id.val, <<>>)

check_category(form, cats) ==
    LET type_id == parse_int(form.type_id)
        category_id == parse_int(form.category_id)
    IN  IF ~Truthy(category_id) THEN Part("", NoData, <<"Category is required">>)
        ELSE IF Overflows(category_id) THEN Part("OverflowError", NoData, <<>>)
        ELSE IF ~HasRow(cats, category_id)
            THEN Part("", NoData, <<"A nonexistent category is selected">>)
        ELSE Part("", "category_id" :> category_id.val,
                  IF Truthy(type_id) /\ ~SameInt(type_id, cats[category_id.val].type_id)
                  THEN <<"The category is not linked to the selected type">>
                  ELSE <<>>)

\* variant: the subcategory is not compared with the submitted category
check_subcategory_unmatched(form, subs, cats) ==
    LET type_id == parse_int(form.type_id)
        subcategory_id == parse_int(form.subcategory_id)
    IN  IF ~Truthy(subcategory_id) THEN Part("", NoData, <<"Subcategory is required">>)
        ELSE IF Overflows(subcategory_id) THEN Part("OverflowError", NoData, <<>>)
        ELSE IF ~HasSubcategory(subs, cats, subcategory_id)
            THEN Part("", NoData, <<"A nonexistent subcategory is selected">>)
        ELSE LET subcategory == subs[subcategory_id.val]
             IN  Part("", "subcategory_id" :> subcategory_id.val,
                      IF Truthy(type_id)
                         /\ ~SameInt(type_id, cats[subcategory.category_id].type_id)
                      THEN <<"The subcategory does not belong to the selected type">>
                      ELSE <<>>)

check_subcategory(form, subs, cats) ==
    LET type_id == parse_int(form.type_id)
        category_id == parse_int(form.category_id)
        subcategory_id == parse_int(form.subcategory_id)
    IN  IF ~Truthy(subcategory_id) THEN Part("", NoData, <<"Subcategory is required">>)
        ELSE IF Overflows(subcategory_id) THEN Part("OverflowError", NoData, <<>>)
        ELSE IF ~HasSubcategory(subs, cats, subcategory_id)
            THEN Part("", NoData, <<"A nonexistent subcategory is selected">>)
        ELSE LET subcategory == subs[subcategory_id.val]
             IN  Part("", "subcategory_id" :> subcategory_id.val,
                      (IF Truthy(category_id)
                          /\ ~SameInt(category_id, subcategory.category_id)
                       THEN <<"The subcategory does not belong to the selected category">>
                       ELSE <<>>)
                      \o
                      (IF Truthy(type_id)
                          /\ ~SameInt(type_id, cats[subcategory.category_id].type_id)
                       THEN <<"The subcategory does not belong to the selected type">>
                       ELSE <<>>))

check_amount(form) ==
    LET cents == parse_amount(form.amount)
    IN  IF cents.kind = "raise" THEN Part(cents.exc, NoData, <<>>)
        ELSE IF cents.kind = "none" \/ (cents.kind = "int" /\ cents.val = 0)
            THEN Part("", NoData, <<"Enter a correct amount">>)
        ELSE Part("", ("amount_cents" :> cents.val) @@ ("amount" :> form.amount), <<>>)

check_comment(form) == Part("", "comment" :> strip(form.comment), <<>>)

\* the parts in the order the function runs them: the first exception escapes,
\* otherwise the data are merged and the errors appended in that order
RECURSIVE Combine(_)
Combine(parts) ==
    IF parts = <<>> THEN Part("", NoData, <<>>)
    ELSE IF parts[1].exc # "" THEN Part(parts[1].exc, NoData, <<>>)
    ELSE LET rest == Combine(Tail(parts))
         IN  IF rest.exc # "" THEN rest
             ELSE Part("", parts[1].data @@ rest.data, parts[1].errors \o rest.errors)

validate_entry_form(form) ==
    Combine(<<check_recorded_on(form), check_status(form, statuses),
              check_type(form, types), check_category(form, categories),
              check_subcategory(form, subcategories, categories),
              check_amount(form), check_comment(form)>>)

\* the parameters repository.create_cashflow / update_cashflow bind
Payload(data) ==
    [recorded_on |-> data["recorded_on"], status_id |-> data["status_id"],
     type_id |-> data["type_id"], category_id |-> data["category_id"],
     subcategory_id |-> data["subcategory_id"], amount_cents |-> data["amount_cents"],
     comment |-> data["comment"]]

-----------------------------------------------------------------------------
(* The requests.  The tables the runs start from, the ids a client can     *)
(* address and the bound on what a run inserts.                            *)

Table(entity) == CASE entity = "status" -> "statuses" [] entity = "type" -> "types"
                   [] entity = "category" -> "categories"
                   [] entity = "subcategory" -> "subcategories"

\* ids the table has given out since the starter rows
Ids(table) == (SeededSeq[table] + 1)..seq[table]

(* The database the runs start from: the server is up, the user has        *)
(* deleted the starter rows and created one status, two types, a category  *)
(* of the first type and a subcategory of it.                              *)
BaseSeq == [statuses |-> SeededSeq.statuses + 1, types |-> SeededSeq.types + 2,
            categories |-> SeededSeq.categories + 1,
            subcategories |-> SeededSeq.subcategories + 1,
            cashflows |-> SeededSeq.cashflows]
BaseStatuses == BaseSeq.statuses :> [name |-> <<"a">>]
BaseTypes == ((BaseSeq.types - 1) :> [name |-> <<"a">>]) @@ (BaseSeq.types :> [name |-> <<"b">>])
BaseCategories == BaseSeq.categories :> [name |-> <<"a">>, type_id |-> BaseSeq.types - 1]
BaseSubcategories ==
    BaseSeq.subcategories :> [name |-> <<"a">>, category_id |-> BaseSeq.categories]

\* rows inserted since the start of the run
Inserted == seq.statuses - BaseSeq.statuses + seq.types - BaseSeq.types
            + seq.categories - BaseSeq.categories
            + seq.subcategories - BaseSeq.subcategories
            + seq.cashflows - BaseSeq.cashflows

\* a request that may insert is sent only while the run is within its bound
WithinBounds(req) ==
    req.route \in {"entries_new", "reference_create"} => Inserted < MaxRows

-----
(* The handlers, each run to its end on the request in flight              *)
(* (server.application: resolve the route, call the handler, answer).      *)

\* what a handler leaves: its response and the tables
Keep(resp) == [response |-> resp, statuses |-> statuses, types |-> types,
               categories |-> categories, subcategories |-> subcategories,
               cashflows |-> cashflows, seq |-> seq]

Apply(req, out) ==
    LET o == out
    IN  /\ request' = req
        /\ response' = o.response
        /\ statuses' = o.statuses
        /\ types' = o.types
        /\ categories' = o.categories
        /\ subcategories' = o.subcategories
        /\ cashflows' = o.cashflows
        /\ seq' = o.seq
        /\ UNCHANGED conns

Idle == request = NoRequest

\* the server is idle and the request is for this route
Handles(req, route) == Idle /\ req.route = route /\ WithinBounds(req)

\* POST /entries/new
view_create_entry(req) ==
    /\ Handles(req, "entries_new")
    /\ LET v == validate_entry_form(req.form)
           ins == sql_insert_cashflow(cashflows, seq.cashflows, Payload(v.data),
                                      statuses, types, categories, subcategories)
       IN  Apply(req, IF v.exc # "" THEN Keep(InternalError)
                 ELSE IF v.errors # <<>> THEN Keep(BadRequest(v.errors))
                 ELSE IF Overflows(parse_amount(req.form.amount)) THEN Keep(InternalError)
                 ELSE IF ins.error THEN Keep(InternalError)
                 ELSE [Keep(redirect("Entry created")) EXCEPT
                         !.cashflows = ins.table,
                         !.seq = [seq EXCEPT !.cashflows = @ + 1]])

\* POST /entries/<entry_id>/edit
view_update_entry(req) ==
    /\ Handles(req, "entries_edit")
    /\ LET entry_id == int(req.id)
           v == validate_entry_form(req.form)
           upd == sql_update_cashflow(cashflows, entry_id.val, Payload(v.data),
                                      statuses, types, categories, subcategories)
       IN  Apply(req, IF Overflows(entry_id) THEN Keep(InternalError)
                 ELSE IF ~HasRow(cashflows, entry_id) THEN Keep(not_found)
                 ELSE IF v.exc # "" THEN Keep(InternalError)
                 ELSE IF v.errors # <<>> THEN Keep(BadRequest(v.errors))
                 ELSE IF Overflows(parse_amount(req.form.amount)) THEN Keep(InternalError)
                 ELSE IF upd.error THEN Keep(InternalError)
                 ELSE [Keep(redirect("Entry updated")) EXCEPT !.cashflows = upd.table])

\* POST /entries/<entry_id>/delete
view_delete_entry(req) ==
    /\ Handles(req, "entries_delete")
    /\ LET entry_id == int(req.id)
       IN  Apply(req, IF Overflows(entry_id) THEN Keep(InternalError)
                 ELSE IF ~HasRow(cashflows, entry_id) THEN Keep(not_found)
                 ELSE [Keep(redirect("Entry deleted")) EXCEPT
                         !.cashflows = Remove(cashflows, entry_id.val)])

Exists == render_reference_page(<<Error("An element with this name already exists")>>)
Added == render_reference_page(<<Success("Element added")>>)
Saved == render_reference_page(<<Success("Changes saved")>>)
Deleted == render_reference_page(<<Success("Element deleted")>>)
NameRequired == render_reference_page(<<Error("Name is required")>>)
PickType == render_reference_page(<<Error("Select a correct type")>>)
PickCategory == render_reference_page(<<Error("Select a correct category")>>)

\* POST /reference/statuses | types | categories | subcategories
handle_reference_creation(req) ==
    /\ Handles(req, "reference_create")
    /\ LET entity == req.entity
           name == strip(req.form.name)
           type_id == parse_int(req.form.type_id)
           category_id == parse_int(req.form.category_id)
           st == sql_insert_named(statuses, seq.statuses, name)
           ty == sql_insert_named(types, seq.types, name)
           cat == sql_insert_category(categories, types, seq.categories, name, type_id.val)
           sub == sql_insert_subcategory(subcategories, categories, seq.subcategories,
                                         name, category_id.val)
       IN  Apply(req,
             IF name = <<>> THEN Keep(NameRequired)
             ELSE IF entity = "status" THEN
                IF st.error THEN Keep(Exists)
                ELSE [Keep(Added) EXCEPT !.statuses = st.table,
                                         !.seq = [seq EXCEPT !.statuses = @ + 1]]
             ELSE IF entity = "type" THEN
                IF ty.error THEN Keep(Exists)
                ELSE [Keep(Added) EXCEPT !.types = ty.table,
                                         !.seq = [seq EXCEPT !.types = @ + 1]]
             ELSE IF entity = "category" THEN
                IF ~Truthy(type_id) THEN Keep(PickType)
                ELSE IF Overflows(type_id) THEN Keep(InternalError)
                ELSE IF ~HasRow(types, type_id) THEN Keep(PickType)
                ELSE IF cat.error THEN Keep(Exists)
                ELSE [Keep(Added) EXCEPT !.categories = cat.table,
                                         !.seq = [seq EXCEPT !.categories = @ + 1]]
             ELSE
                IF ~Truthy(category_id) THEN Keep(PickCategory)
                ELSE IF Overflows(category_id) THEN Keep(InternalError)
                ELSE IF ~HasRow(categories, category_id) THEN Keep(PickCategory)
                ELSE IF sub.error THEN Keep(Exists)
                ELSE [Keep(Added) EXCEPT !.subcategories = sub.table,
                                         !.seq = [seq EXCEPT !.subcategories = @ + 1]])

\* POST /reference/<entity>/<entity_id>/edit
handle_reference_update(req) ==
    /\ Handles(req, "reference_edit")
    /\ LET entity == req.entity
           entity_id == int(req.id)
           name == strip(req.form.name)
           type_id == parse_int(req.form.type_id)
           category_id == parse_int(req.form.category_id)
           st == sql_update_named(statuses, entity_id.val, name)
           ty == sql_update_named(types, entity_id.val, name)
           cat == sql_update_category(categories, types, entity_id.val, name, type_id.val)
           sub == sql_update_subcategory(subcategories, categories, entity_id.val,
                                         name, category_id.val)
       IN  Apply(req,
             IF name = <<>> THEN Keep(NameRequired)
             ELSE IF Overflows(entity_id) THEN Keep(InternalError)
             ELSE IF entity = "status" THEN
                IF ~HasRow(statuses, entity_id) THEN Keep(not_found)
                ELSE IF st.error THEN Keep(Exists)
                ELSE [Keep(Saved) EXCEPT !.statuses = st.table]
             ELSE IF entity = "type" THEN
                IF ~HasRow(types, entity_id) THEN Keep(not_found)
                ELSE IF ty.error THEN Keep(Exists)
                ELSE [Keep(Saved) EXCEPT !.types = ty.table]
             ELSE IF entity = "category" THEN
                IF ~HasRow(categories, entity_id) THEN Keep(not_found)
                ELSE IF ~Truthy(type_id) THEN Keep(PickType)
                ELSE IF Overflows(type_id) THEN Keep(InternalError)
                ELSE IF ~HasRow(types, type_id) THEN Keep(PickType)
                ELSE IF type_id.val # categories[entity_id.val].type_id
                        /\ count_dependencies(cashflows, "category_id", entity_id.val) > 0
                    THEN Keep(render_reference_page(<<Error(
                        "Cannot change the type of a category while linked entries exist")>>))
                ELSE IF cat.error THEN Keep(Exists)
                ELSE [Keep(Saved) EXCEPT !.categories = cat.table]
             ELSE
                IF ~HasSubcategory(subcategories, categories, entity_id) THEN Keep(not_found)
                ELSE IF ~Truthy(category_id) THEN Keep(PickCategory)
                ELSE IF Overflows(category_id) THEN Keep(InternalError)
                ELSE IF ~HasRow(categories, category_id) THEN Keep(PickCategory)
                ELSE IF count_dependencies(cashflows, "subcategory_id", entity_id.val) > 0
                        /\ category_id.val # subcategories[entity_id.val].category_id
                    THEN Keep(render_reference_page(<<Error(
                        "Cannot change the category of a subcategory while linked entries exist")>>))
                ELSE IF sub.error THEN Keep(Exists)
                ELSE [Keep(Saved) EXCEPT !.subcategories = sub.table])

\* the message of handle_reference_delete when a dependent row exists
DeleteRefusal(entity) ==
    CASE entity = "status" -> "Cannot delete a status while linked entries exist"
      [] entity = "type" -> "Cannot delete a type that has categories or entries"
      [] entity = "category" ->
            "Cannot delete a category while linked subcategories or entries exist"
      [] entity = "subcategory" -> "Cannot delete a subcategory while linked entries exist"

\* variant: the delete is issued with no dependency count, on a connection
\* that does not enforce foreign keys
handle_reference_delete_unguarded(req) ==
    /\ Handles(req, "reference_delete")
    /\ LET entity == req.entity
           entity_id == int(req.id)
       IN  Apply(req,
             IF Overflows(entity_id) THEN Keep(InternalError)
             ELSE IF entity = "status"
                THEN [Keep(Deleted) EXCEPT !.statuses = Remove(statuses, entity_id.val)]
             ELSE IF entity = "type"
                THEN [Keep(Deleted) EXCEPT !.types = Remove(types, entity_id.val)]
             ELSE IF entity = "category"
                THEN [Keep(Deleted) EXCEPT !.categories = Remove(categories, entity_id.val)]
             ELSE [Keep(Deleted) EXCEPT !.subcategories = Remove(subcategories, entity_id.val)])

\* POST /reference/<entity>/<entity_id>/delete
handle_reference_delete(req) ==
    /\ Handles(req, "reference_delete")
    /\ LET entity == req.entity
           entity_id == int(req.id)
           st == sql_delete_status(statuses, cashflows, entity_id.val)
           ty == sql_delete_type(types, categories, subcategories, cashflows, entity_id.val)
           cat == sql_delete_category(categories, subcategories, cashflows, entity_id.val)
           sub == sql_delete_subcategory(subcategories, cashflows, entity_id.val)
       IN  Apply(req,
             IF Overflows(entity_id) THEN Keep(InternalError)
             ELSE IF entity = "status" THEN
                IF count_dependencies(cashflows, "status_id", entity_id.val) > 0
                THEN Keep(render_reference_page(<<Error(
                        "Cannot delete a status while linked entries exist")>>))
                ELSE IF st.error THEN Keep(InternalError)
                ELSE [Keep(Deleted) EXCEPT !.statuses = st.table]
             ELSE IF entity = "type" THEN
                IF count_dependencies(categories, "type_id", entity_id.val) > 0
                   \/ count_dependencies(cashflows, "type_id", entity_id.val) > 0
                THEN Keep(render_reference_page(<<Error(
                        "Cannot delete a type that has categories or entries")>>))
                ELSE IF ty.error THEN Keep(InternalError)
                ELSE [Keep(Deleted) EXCEPT !.types = ty.types,
                                           !.categories = ty.categories,
                                           !.subcategories = ty.subcategories]
             ELSE IF entity = "category" THEN
                IF count_dependencies(subcategories, "category_id", entity_id.val) > 0
                   \/ count_dependencies(cashflows, "category_id", entity_id.val) > 0
                THEN Keep(render_reference_page(<<Error(
                        "Cannot delete a category while linked subcategories or entries exist")>>))
                ELSE IF cat.error THEN Keep(InternalError)
                ELSE [Keep(Deleted) EXCEPT !.categories = cat.categories,
                                           !.subcategories = cat.subcategories]
             ELSE
                IF count_dependencies(cashflows, "subcategory_id", entity_id.val) > 0
                THEN Keep(render_reference_page(<<Error(
                        "Cannot delete a subcategory while linked entries exist")>>))
                ELSE IF sub.error THEN Keep(InternalError)
                ELSE [Keep(Deleted) EXCEPT !.subcategories = sub.table])

-----------------------------------------------------------------------------
(* The client.  A handler step takes a request and leaves it, with its     *)
(* response, on the wire; Deliver ends the exchange                        *)
(* (start_response(status, headers); return [body]).                       *)

Deliver ==
    /\ request # NoRequest
    /\ request' = NoRequest
    /\ response' = NoResponse
    /\ UNCHANGED <<dbvars, conns>>

Entities == {"status", "type", "category", "subcategory"}

IdTexts(table) == {ToText(i) : i \in Ids(table)}

EntryForms(dates, sts, tys, cats, subs, amounts, comments) ==
    {[EmptyForm EXCEPT !.recorded_on = d, !.status_id = s, !.type_id = t,
                       !.category_id = c, !.subcategory_id = u, !.amount = a,
                       !.comment = m] :
        d \in dates, s \in sts, t \in tys, c \in cats, u \in subs, a \in amounts,
        m \in comments}

\* the forms of a reference request: every name with every parent, and the form
\* with the parent left out and the one with nothing filled in
ReferenceForms(entity, names) ==
    {[EmptyForm EXCEPT !.name = n, !.type_id = t, !.category_id = c] :
        n \in names,
        t \in IF entity = "category" THEN IdTexts("types") ELSE {<<>>},
        c \in IF entity = "subcategory" THEN IdTexts("categories") ELSE {<<>>}}
    \cup {[EmptyForm EXCEPT !.name = n] : n \in names}
    \cup {EmptyForm}

\* the requests of a route
RequestsOf(route, entity, ids, forms) ==
    {[route |-> route, entity |-> entity, id |-> i, form |-> f] : i \in ids, f \in forms}

Date1 == <<"2", "0", "2", "4", "-", "0", "1", "-", "1", "5">>

\* the names the requests of the sequential runs carry: two for the kinds whose
\* rows are parents, one for the others
Names == [e \in Entities |->
            IF e \in {"type", "category"} THEN {<<"a">>, <<"b">>} ELSE {<<"a">>}]

\* the forms of the sequential runs: a date, an amount and every combination of
\* the ids given out so far
Forms == EntryForms({Date1}, IdTexts("statuses"), IdTexts("types"),
                    IdTexts("categories"), IdTexts("subcategories"), {<<"5">>}, {<<>>})

NoConns == <<>>

Init ==
    /\ statuses = BaseStatuses
    /\ types = BaseTypes
    /\ categories = BaseCategories
    /\ subcategories = BaseSubcategories
    /\ cashflows = EmptyTable
    /\ seq = BaseSeq
    /\ request = NoRequest
    /\ response = NoResponse
    /\ conns = NoConns

Next ==
    \/ Idle /\ \E req \in RequestsOf("entries_new", "entry", {<<>>}, Forms) :
                    view_create_entry(req)
    \/ Idle /\ \E req \in RequestsOf("entries_edit", "entry", IdTexts("cashflows"), Forms) :
                    view_update_entry(req)
    \/ Idle /\ \E req \in RequestsOf("entries_delete", "entry", IdTexts("cashflows"),
                                     {EmptyForm}) :
                    view_delete_entry(req)
    \/ Idle /\ \E e \in Entities :
                 \E req \in RequestsOf("reference_create", e, {<<>>},
                                       ReferenceForms(e, Names[e])) :
                    handle_reference_creation(req)
    \/ Idle /\ \E e \in Entities :
                 \E req \in RequestsOf("reference_edit", e, IdTexts(Table(e)),
                                       ReferenceForms(e, Names[e])) :
                    handle_reference_update(req)
    \/ Idle /\ \E e \in Entities :
                 \E req \in RequestsOf("reference_delete", e, IdTexts(Table(e)),
                                       {EmptyForm}) :
                    handle_reference_delete(req)
    \/ Deliver

Spec == Init /\ [][Next]_vars

-----------------------------------------------------------------------------
(* The entry forms in full.  The ledger handlers are driven with every     *)
(* combination of present, missing, unknown and oversized ids and with     *)
(* amounts of every shape parse_amount tells apart; the database is one a  *)
(* sequential run reaches: the base rows and a second category, of either  *)
(* type.                                                                   *)

\* an id of more digits than SQLite binds
HugeId == [i \in 1..(SQLITE_INT_DIGITS + 1) |-> "9"]

\* an id the table has not given out yet
UnknownId(table) == ToText(seq[table] + 1)

\* HugeId as an amount: a sum of more cents than SQLite binds
Amounts == {<<>>, <<"0">>, <<"5">>, <<"-", "5">>, <<"-", "0", ".", "0", "0", "4">>, <<"N", "a", "N">>, <<"1", "e", "2", "6">>, <<"a", "b", "c">>, HugeId}

\* a date of the right shape that is no day of the calendar
Date2 == <<"2", "0", "2", "4", "-", "0", "2", "-", "3", "0">>

\* a year alone
Date3 == <<"2", "0", "2", "4">>

ValidateForms ==
    EntryForms({<<>>, Date1, Date2, Date3},
               {<<>>, HugeId} \cup IdTexts("statuses"),
               {<<>>} \cup IdTexts("types"),
               {<<>>, UnknownId("categories")} \cup IdTexts("categories"),
               {<<>>, UnknownId("subcategories")} \cup IdTexts("subcategories"),
               Amounts, {<<>>})

InitValidate ==
    /\ statuses = BaseStatuses
    /\ types = BaseTypes
    /\ \E t \in DOMAIN BaseTypes :
          categories = BaseCategories
                       @@ ((BaseSeq.categories + 1) :> [name |-> <<"b">>, type_id |-> t])
    /\ subcategories = BaseSubcategories
    /\ cashflows = EmptyTable
    /\ seq = [BaseSeq EXCEPT !.categories = @ + 1]
    /\ request = NoRequest
    /\ response = NoResponse
    /\ conns = NoConns

NextValidate ==
    \/ Idle /\ \E req \in RequestsOf("entries_new", "entry", {<<>>}, ValidateForms) :
                    view_create_entry(req)
    \/ Idle /\ \E req \in RequestsOf("entries_edit", "entry", IdTexts("cashflows"),
                                     ValidateForms) :
                    view_update_entry(req)
    \/ Idle /\ \E req \in RequestsOf("entries_delete", "entry", IdTexts("cashflows"),
                                     {EmptyForm}) :
                    view_delete_entry(req)
    \/ Deliver

SpecValidate == InitValidate /\ [][NextValidate]_vars

-----------------------------------------------------------------------------
(* Properties of the sequential runs (Spec).                               *)

\* the URL id of the request on the wire, as the handler reads it
RequestId == int(request.id).val

\* the response refuses: an error page, a 404 or a 500
Refused(resp) ==
    \/ resp.status \in {"400 Bad Request", "404 Not Found", "500 Internal Server Error"}
    \/ \E i \in 1..Len(resp.messages) : resp.messages[i].level = "error"

\* C1: every stored entry is chain-consistent: its category belongs to its type
\* and its subcategory belongs to its category.
C1_ChainConsistency ==
    \A e \in DOMAIN cashflows :
        /\ cashflows[e].category_id \in DOMAIN categories
        /\ categories[cashflows[e].category_id].type_id = cashflows[e].type_id
        /\ cashflows[e].subcategory_id \in DOMAIN subcategories
        /\ subcategories[cashflows[e].subcategory_id].category_id = cashflows[e].category_id

\* an entry is stored and a category that no entry uses has just been moved to
\* another type than the entry's
C1_Witness ==
    /\ request.route = "reference_edit"
    /\ request.entity = "category"
    /\ response.messages = <<Success("Changes saved")>>
    /\ \E e \in DOMAIN cashflows :
          /\ RequestId \in DOMAIN categories
          /\ RequestId # cashflows[e].category_id
          /\ categories[RequestId].type_id # cashflows[e].type_id
          /\ request.form.type_id = ToText(categories[RequestId].type_id)

\* C2: every reference resolves: a category's type, a subcategory's category and
\* the status, type, category and subcategory of every entry are existing rows.
C2_ReferentialIntegrity ==
    /\ \A c \in DOMAIN categories : categories[c].type_id \in DOMAIN types
    /\ \A u \in DOMAIN subcategories : subcategories[u].category_id \in DOMAIN categories
    /\ \A e \in DOMAIN cashflows :
          CashflowKeysExist(cashflows[e], statuses, types, categories, subcategories)

\* an entry is stored and a delete of a reference row has just gone through
C2_Witness ==
    /\ request.route = "reference_delete"
    /\ response.messages = <<Success("Element deleted")>>
    /\ cashflows # EmptyTable
    /\ categories # EmptyTable

\* the rows of an entity that some entry references
ReferencedBy(flows, entity, id) ==
    \E e \in DOMAIN flows : flows[e][entity \o "_id"] = id

\* C7: a delete of a status, type, category or subcategory that an entry
\* references is answered by the dependency message of its kind and changes no table.
C7_ReferencedDeleteRefused ==
    [][(Idle /\ request'.route = "reference_delete"
             /\ ReferencedBy(cashflows, request'.entity, int(request'.id).val))
        => (/\ response' = render_reference_page(<<Error(DeleteRefusal(request'.entity))>>)
            /\ UNCHANGED dbvars)]_vars

\* the delete of a subcategory that an entry references has been refused
C7_Witness ==
    /\ request.route = "reference_delete"
    /\ request.entity = "subcategory"
    /\ ReferencedBy(cashflows, "subcategory", RequestId)
    /\ response = render_reference_page(<<Error(DeleteRefusal("subcategory"))>>)

\* C8: the delete of a type that has a category is refused and removes nothing;
\* the delete of an existing type that no category and no entry references
\* succeeds and removes that type alone.
C8_TypeDelete ==
    [][(Idle /\ request'.route = "reference_delete" /\ request'.entity = "type")
        => LET t == int(request'.id).val
           IN  /\ (\E c \in DOMAIN categories : categories[c].type_id = t)
                    => (/\ response' = render_reference_page(
                                          <<Error(DeleteRefusal("type"))>>)
                        /\ UNCHANGED dbvars)
               /\ (/\ t \in DOMAIN types
                   /\ ~\E c \in DOMAIN categories : categories[c].type_id = t
                   /\ ~ReferencedBy(cashflows, "type", t))
                    => (/\ response' = render_reference_page(<<Success("Element deleted")>>)
                        /\ types' = Remove(types, t)
                        /\ UNCHANGED <<statuses, categories, subcategories, cashflows, seq>>)
      ]_vars

\* the first type, which starts with a category, has been deleted
C8_Witness ==
    /\ request.route = "reference_delete"
    /\ request.entity = "type"
    /\ RequestId = BaseSeq.types - 1
    /\ response = render_reference_page(<<Success("Element deleted")>>)
    /\ RequestId \notin DOMAIN types

\* C9: an update that gives a category another type while an entry references
\* the category, or a subcategory another category while an entry references the
\* subcategory, is refused and changes no table.
C9_ReparentGuarded ==
    [][(Idle /\ request'.route = "reference_edit")
        => LET id == int(request'.id).val
           IN  /\ (/\ request'.entity = "category"
                   /\ id \in DOMAIN categories
                   /\ ~SameInt(parse_int(request'.form.type_id), categories[id].type_id)
                   /\ ReferencedBy(cashflows, "category", id))
                    => (Refused(response') /\ UNCHANGED dbvars)
               /\ (/\ request'.entity = "subcategory"
                   /\ id \in DOMAIN subcategories
                   /\ ~SameInt(parse_int(request'.form.category_id),
                               subcategories[id].category_id)
                   /\ ReferencedBy(cashflows, "subcategory", id))
                    => (Refused(response') /\ UNCHANGED dbvars)
      ]_vars

\* a category that an entry references was to move to another existing type
C9_Witness ==
    /\ request.route = "reference_edit"
    /\ request.entity = "category"
    /\ RequestId \in DOMAIN categories
    /\ ReferencedBy(cashflows, "category", RequestId)
    /\ HasRow(types, parse_int(request.form.type_id))
    /\ ~SameInt(parse_int(request.form.type_id), categories[RequestId].type_id)
    /\ response = render_reference_page(<<Error(
            "Cannot change the type of a category while linked entries exist")>>)

-----------------------------------------------------------------------------
(* Properties of the entry forms (SpecValidate).                           *)

\* the request is an entry create, or an update of a stored entry
EntryWrite(req) ==
    \/ req.route = "entries_new"
    \/ req.route = "entries_edit" /\ HasRow(cashflows, int(req.id))

\* the response is the form shown again with its list of validation errors
ValidationErrors(resp) == resp.status = "400 Bad Request" /\ resp.messages # <<>>

\* C3: an amount that is empty or parses to zero or less is a validation error
\* and stores nothing, hence every stored entry has a positive amount_cents.
C3_AmountsPositive ==
    \A e \in DOMAIN cashflows : cashflows[e].amount_cents > 0

\* a negative amount has been stored
C3_NegativeStored ==
    /\ request.route = "entries_new"
    /\ response = redirect("Entry created")
    /\ \E e \in DOMAIN cashflows : cashflows[e].amount_cents < 0

\* the submitted subcategory is a stored one and its category is not the
\* submitted category
SubcategoryMismatch(form) ==
    /\ HasSubcategory(subcategories, categories, parse_int(form.subcategory_id))
    /\ parse_int(form.category_id).kind = "int"
    /\ ~SameInt(parse_int(form.category_id),
                subcategories[parse_int(form.subcategory_id).val].category_id)

\* C4: an entry create or update whose subcategory belongs to another category
\* than the submitted one is answered by validation errors and changes nothing.
C4_MismatchIsValidationError ==
    [][(Idle /\ EntryWrite(request') /\ SubcategoryMismatch(request'.form))
        => (ValidationErrors(response') /\ UNCHANGED dbvars)]_vars

\* a mismatched pair has ended in an internal error
C4_MismatchCrashed ==
    /\ request.route = "entries_new"
    /\ SubcategoryMismatch(request.form)
    /\ response = InternalError

\* the four ids of the form name stored rows and the category is of the type
ReferencesValid(form) ==
    /\ HasRow(statuses, parse_int(form.status_id))
    /\ HasRow(types, parse_int(form.type_id))
    /\ HasRow(categories, parse_int(form.category_id))
    /\ HasSubcategory(subcategories, categories, parse_int(form.subcategory_id))
    /\ SameInt(parse_int(form.type_id), categories[parse_int(form.category_id).val].type_id)

\* C5: an entry create or update whose four ids are not all present and stored,
\* or whose category is not of the submitted type, is answered by a non-empty
\* list of errors and changes nothing.
C5_CommitOnlyValidReferences ==
    [][(Idle /\ EntryWrite(request') /\ ~ReferencesValid(request'.form))
        => (ValidationErrors(response') /\ UNCHANGED dbvars)]_vars

\* a form with a missing category has ended in an internal error
C5_InvalidCrashed ==
    /\ request.route = "entries_new"
    /\ request.form.category_id = <<>>
    /\ response = InternalError

\* C6: validation never raises: whatever the form, an entry create or update
\* does not end in an internal error.
C6_ValidationTotal ==
    request.route \in {"entries_new", "entries_edit"}
        => /\ validate_entry_form(request.form).exc = ""
           /\ response # InternalError

\* a form whose ids are all valid has ended in an internal error over its amount
C6_AmountCrashed ==
    /\ request.route = "entries_new"
    /\ ReferencesValid(request.form)
    /\ check_amount(request.form).exc # ""
    /\ response = InternalError

-----------------------------------------------------------------------------
(* Interleaved connections.  Every repository call opens its own           *)
(* connection (db.db_cursor) and is one statement, so a handler is a row   *)
(* of separate reads followed by its write; the handlers of two requests   *)
(* being served at once take their steps in any order.  conns[c] holds the *)
(* place of connection c in its handler, what its reads returned and the   *)
(* response of its last request.                                           *)

Conns == {1, 2}

\* requests the connections begin in a run
MaxRequests == 2

IdleConn == [pc |-> "idle", req |-> NoRequest, parts |-> <<>>, parent |-> 0,
             response |-> NoResponse, served |-> 0]

Served == conns[1].served + conns[2].served

Goto(c, pc) == conns' = [conns EXCEPT ![c].pc = pc]

\* the handler returns (or raises, and application answers 500)
Reply(c, resp) == conns' = [conns EXCEPT ![c].pc = "idle", ![c].response = resp]

Quiet == UNCHANGED <<dbvars, request, response>>

FirstStep(req) ==
    CASE req.route = "entries_new" -> "get_status"
      [] req.route = "entries_edit" -> "get_cashflow"
      [] req.route = "reference_edit" -> "get_row"
      [] req.route = "reference_create" -> "get_parent"
      [] req.route = "reference_delete" -> "count"

\* a request arrives on an idle connection
Begin(c, req) ==
    /\ conns[c].pc = "idle"
    /\ Served < MaxRequests
    /\ conns' = [conns EXCEPT ![c] = [IdleConn EXCEPT !.pc = FirstStep(req), !.req = req,
                                                      !.served = conns[c].served + 1]]
    /\ Quiet

\* view_update_entry: repo.get_cashflow(entry_id)
conn_get_cashflow(c) ==
    /\ conns[c].pc = "get_cashflow"
    /\ LET entry_id == int(conns[c].req.id)
       IN  IF Overflows(entry_id) THEN Reply(c, InternalError)
           ELSE IF ~HasRow(cashflows, entry_id) THEN Reply(c, not_found)
           ELSE Goto(c, "get_status")
    /\ Quiet

ValidateSteps == <<"get_status", "get_type", "get_category", "get_subcategory">>

\* validate_entry_form: one of its four lookups
conn_validate(c) ==
    /\ \E k \in DOMAIN ValidateSteps :
          /\ conns[c].pc = ValidateSteps[k]
          /\ LET form == conns[c].req.form
                 part == CASE k = 1 -> check_status(form, statuses)
                           [] k = 2 -> check_type(form, types)
                           [] k = 3 -> check_category(form, categories)
                           [] k = 4 -> check_subcategory(form, subcategories, categories)
             IN  IF part.exc # "" THEN Reply(c, InternalError)
                 ELSE conns' = [conns EXCEPT
                        ![c].pc = IF k = 4 THEN "write_entry" ELSE ValidateSteps[k + 1],
                        ![c].parts = Append(@, part)]
    /\ Quiet

\* the rest of validate_entry_form, then repo.create_cashflow / update_cashflow
conn_write_entry(c) ==
    /\ conns[c].pc = "write_entry"
    /\ UNCHANGED <<statuses, types, categories, subcategories, request, response>>
    /\ LET req == conns[c].req
           v == Combine(<<check_recorded_on(req.form)>> \o conns[c].parts
                        \o <<check_amount(req.form), check_comment(req.form)>>)
           ins == sql_insert_cashflow(cashflows, seq.cashflows, Payload(v.data),
                                      statuses, types, categories, subcategories)
           upd == sql_update_cashflow(cashflows, int(req.id).val, Payload(v.data),
                                      statuses, types, categories, subcategories)
       IN  IF v.exc # "" THEN Reply(c, InternalError) /\ UNCHANGED <<cashflows, seq>>
           ELSE IF v.errors # <<>>
               THEN Reply(c, BadRequest(v.errors)) /\ UNCHANGED <<cashflows, seq>>
           ELSE IF Overflows(parse_amount(req.form.amount))
               THEN Reply(c, InternalError) /\ UNCHANGED <<cashflows, seq>>
           ELSE IF req.route = "entries_new" THEN
               IF ins.error THEN Reply(c, InternalError) /\ UNCHANGED <<cashflows, seq>>
               ELSE /\ Reply(c, redirect("Entry created"))
                    /\ cashflows' = ins.table
                    /\ seq' = [seq EXCEPT !.cashflows = @ + 1]
           ELSE IF upd.error THEN Reply(c, InternalError) /\ UNCHANGED <<cashflows, seq>>
           ELSE /\ Reply(c, redirect("Entry updated"))
                /\ cashflows' = upd.table
                /\ UNCHANGED seq

\* handle_reference_update: the name, then the lookup of the row to change
conn_get_row(c) ==
    /\ conns[c].pc = "get_row"
    /\ LET entity == conns[c].req.entity
           entity_id == int(conns[c].req.id)
       IN  IF strip(conns[c].req.form.name) = <<>> THEN Reply(c, NameRequired)
           ELSE IF Overflows(entity_id) THEN Reply(c, InternalError)
           ELSE IF entity = "status" THEN
               IF ~HasRow(statuses, entity_id) THEN Reply(c, not_found)
               ELSE Goto(c, "write_reference")
           ELSE IF entity = "type" THEN
               IF ~HasRow(types, entity_id) THEN Reply(c, not_found)
               ELSE Goto(c, "write_reference")
           ELSE IF entity = "category" THEN
               IF ~HasRow(categories, entity_id) THEN Reply(c, not_found)
               ELSE conns' = [conns EXCEPT ![c].pc = "get_parent",
                                           ![c].parent = categories[entity_id.val].type_id]
           ELSE
               IF ~HasSubcategory(subcategories, categories, entity_id)
               THEN Reply(c, not_found)
               ELSE conns' = [conns EXCEPT
                                ![c].pc = "get_parent",
                                ![c].parent = subcategories[entity_id.val].category_id]
    /\ Quiet

\* handle_reference_update, handle_reference_creation: the lookup of the parent
\* the form names (a creation reads the name first, and a status or a type has
\* no parent to look up)
conn_get_parent(c) ==
    /\ conns[c].pc = "get_parent"
    /\ LET type_id == parse_int(conns[c].req.form.type_id)
           category_id == parse_int(conns[c].req.form.category_id)
       IN  IF conns[c].req.route = "reference_create" THEN
               IF strip(conns[c].req.form.name) = <<>> THEN Reply(c, NameRequired)
               ELSE IF conns[c].req.entity = "category" THEN
                   IF ~Truthy(type_id) THEN Reply(c, PickType)
                   ELSE IF Overflows(type_id) THEN Reply(c, InternalError)
                   ELSE IF ~HasRow(types, type_id) THEN Reply(c, PickType)
                   ELSE Goto(c, "write_reference")
               ELSE IF conns[c].req.entity = "subcategory" THEN
                   IF ~Truthy(category_id) THEN Reply(c, PickCategory)
                   ELSE IF Overflows(category_id) THEN Reply(c, InternalError)
                   ELSE IF ~HasRow(categories, category_id) THEN Reply(c, PickCategory)
                   ELSE Goto(c, "write_reference")
               ELSE Goto(c, "write_reference")
           ELSE IF conns[c].req.entity = "category" THEN
               IF ~Truthy(type_id) THEN Reply(c, PickType)
               ELSE IF Overflows(type_id) THEN Reply(c, InternalError)
               ELSE IF ~HasRow(types, type_id) THEN Reply(c, PickType)
               ELSE IF type_id.val # conns[c].parent THEN Goto(c, "count")
               ELSE Goto(c, "write_reference")
           ELSE
               IF ~Truthy(category_id) THEN Reply(c, PickCategory)
               ELSE IF Overflows(category_id) THEN Reply(c, InternalError)
               ELSE IF ~HasRow(categories, category_id) THEN Reply(c, PickCategory)
               ELSE Goto(c, "count")
    /\ Quiet

\* repo.count_dependencies as the update and the delete handlers call it
conn_count_dependencies(c) ==
    /\ conns[c].pc \in {"count", "count2"}
    /\ LET req == conns[c].req
           entity == req.entity
           id == int(req.id)
           category_id == parse_int(req.form.category_id)
           refusal == render_reference_page(<<Error(DeleteRefusal(entity))>>)
       IN  IF Overflows(id) THEN Reply(c, InternalError)
           ELSE IF req.route = "reference_edit" THEN
               IF entity = "category" THEN
                   IF count_dependencies(cashflows, "category_id", id.val) > 0
                   THEN Reply(c, render_reference_page(<<Error(
                        "Cannot change the type of a category while linked entries exist")>>))
                   ELSE Goto(c, "write_reference")
               ELSE
                   IF count_dependencies(cashflows, "subcategory_id", id.val) > 0
                      /\ category_id.val # conns[c].parent
                   THEN Reply(c, render_reference_page(<<Error(
                        "Cannot change the category of a subcategory while linked entries exist")>>))
                   ELSE Goto(c, "write_reference")
           ELSE IF conns[c].pc = "count" THEN
               IF entity = "status" THEN
                   IF count_dependencies(cashflows, "status_id", id.val) > 0
                   THEN Reply(c, refusal) ELSE Goto(c, "write_reference")
               ELSE IF entity = "type" THEN
                   IF count_dependencies(categories, "type_id", id.val) > 0
                   THEN Reply(c, refusal) ELSE Goto(c, "count2")
               ELSE IF entity = "category" THEN
                   IF count_dependencies(subcategories, "category_id", id.val) > 0
                   THEN Reply(c, refusal) ELSE Goto(c, "count2")
               ELSE
                   IF count_dependencies(cashflows, "subcategory_id", id.val) > 0
                   THEN Reply(c, refusal) ELSE Goto(c, "write_reference")
           ELSE
               IF count_dependencies(cashflows, entity \o "_id", id.val) > 0
               THEN Reply(c, refusal) ELSE Goto(c, "write_reference")
    /\ Quiet

Store(o) ==
    /\ statuses' = o.statuses
    /\ types' = o.types
    /\ categories' = o.categories
    /\ subcategories' = o.subcategories
    /\ cashflows' = o.cashflows
    /\ seq' = o.seq

\* the INSERT, UPDATE or DELETE statement of a reference handler
conn_write_reference(c) ==
    /\ conns[c].pc = "write_reference"
    /\ UNCHANGED <<request, response>>
    /\ LET req == conns[c].req
           entity == req.entity
           id == int(req.id).val
           name == strip(req.form.name)
           st == sql_update_named(statuses, id, name)
           ty == sql_update_named(types, id, name)
           cat == sql_update_category(categories, types, id, name,
                                      parse_int(req.form.type_id).val)
           sub == sql_update_subcategory(subcategories, categories, id, name,
                                         parse_int(req.form.category_id).val)
           dst == sql_delete_status(statuses, cashflows, id)
           dty == sql_delete_type(types, categories, subcategories, cashflows, id)
           dcat == sql_delete_category(categories, subcategories, cashflows, id)
           dsub == sql_delete_subcategory(subcategories, cashflows, id)
           ist == sql_insert_named(statuses, seq.statuses, name)
           ity == sql_insert_named(types, seq.types, name)
           icat == sql_insert_category(categories, types, seq.categories, name,
                                       parse_int(req.form.type_id).val)
           isub == sql_insert_subcategory(subcategories, categories, seq.subcategories,
                                          name, parse_int(req.form.category_id).val)
           out ==
             IF req.route = "reference_create" THEN
                IF entity = "status" THEN
                    IF ist.error THEN Keep(Exists)
                    ELSE [Keep(Added) EXCEPT !.statuses = ist.table,
                                             !.seq = [seq EXCEPT !.statuses = @ + 1]]
                ELSE IF entity = "type" THEN
                    IF ity.error THEN Keep(Exists)
                    ELSE [Keep(Added) EXCEPT !.types = ity.table,
                                             !.seq = [seq EXCEPT !.types = @ + 1]]
                ELSE IF entity = "category" THEN
                    IF icat.error THEN Keep(Exists)
                    ELSE [Keep(Added) EXCEPT !.categories = icat.table,
                                             !.seq = [seq EXCEPT !.categories = @ + 1]]
                ELSE
                    IF isub.error THEN Keep(Exists)
                    ELSE [Keep(Added) EXCEPT !.subcategories = isub.table,
                                             !.seq = [seq EXCEPT !.subcategories = @ + 1]]
             ELSE IF req.route = "reference_edit" THEN
                IF entity = "status" THEN
                    IF st.error THEN Keep(Exists)
                    ELSE [Keep(Saved) EXCEPT !.statuses = st.table]
                ELSE IF entity = "type" THEN
                    IF ty.error THEN Keep(Exists) ELSE [Keep(Saved) EXCEPT !.types = ty.table]
                ELSE IF entity = "category" THEN
                    IF cat.error THEN Keep(Exists)
                    ELSE [Keep(Saved) EXCEPT !.categories = cat.table]
                ELSE
                    IF sub.error THEN Keep(Exists)
                    ELSE [Keep(Saved) EXCEPT !.subcategories = sub.table]
             ELSE
                IF entity = "status" THEN
                    IF dst.error THEN Keep(InternalError)
                    ELSE [Keep(Deleted) EXCEPT !.statuses = dst.table]
                ELSE IF entity = "type" THEN
                    IF dty.error THEN Keep(InternalError)
                    ELSE [Keep(Deleted) EXCEPT !.types = dty.types,
                                               !.categories = dty.categories,
                                               !.subcategories = dty.subcategories]
                ELSE IF entity = "category" THEN
                    IF dcat.error THEN Keep(InternalError)
                    ELSE [Keep(Deleted) EXCEPT !.categories = dcat.categories,
                                               !.subcategories = dcat.subcategories]
                ELSE
                    IF dsub.error THEN Keep(InternalError)
                    ELSE [Keep(Deleted) EXCEPT !.subcategories = dsub.table]
       IN  Reply(c, out.response) /\ Store(out)

\* the database of the interleaved runs: the base rows, a second category of
\* either type with a subcategory, and no entry or one
FirstEntry ==
    [recorded_on |-> Date1, status_id |-> BaseSeq.statuses, type_id |-> BaseSeq.types - 1,
     category_id |-> BaseSeq.categories, subcategory_id |-> BaseSeq.subcategories,
     amount_cents |-> 500, comment |-> <<>>]

InitConc ==
    /\ statuses = BaseStatuses
    /\ types = BaseTypes
    /\ \E t \in DOMAIN BaseTypes :
          categories = BaseCategories
                       @@ ((BaseSeq.categories + 1) :> [name |-> <<"b">>, type_id |-> t])
    /\ subcategories = BaseSubcategories
                       @@ ((BaseSeq.subcategories + 1) :>
                              [name |-> <<"a">>, category_id |-> BaseSeq.categories + 1])
    /\ \E n \in {0, 1} :
          /\ cashflows = IF n = 0 THEN EmptyTable ELSE (BaseSeq.cashflows + 1) :> FirstEntry
          /\ seq = [BaseSeq EXCEPT !.categories = @ + 1, !.subcategories = @ + 1,
                                   !.cashflows = @ + n]
    /\ request = NoRequest
    /\ response = NoResponse
    /\ conns = [c \in Conns |-> IdleConn]

\* the requests of the interleaved runs; an entry is also edited with a year
\* alone as its date, and the creations are those of rows that have a parent
ConcRequests ==
    RequestsOf("entries_new", "entry", {<<>>}, Forms)
    \cup RequestsOf("entries_edit", "entry", IdTexts("cashflows"), Forms)
    \cup RequestsOf("entries_edit", "entry", IdTexts("cashflows"),
                    EntryForms({Date3}, {ToText(BaseSeq.statuses)},
                               {ToText(BaseSeq.types - 1)}, {ToText(BaseSeq.categories)},
                               {ToText(BaseSeq.subcategories)}, {<<"5">>}, {<<>>}))
    \cup UNION {RequestsOf("reference_edit", e, IdTexts(Table(e)),
                           ReferenceForms(e, {<<"a">>})) : e \in Entities}
    \cup UNION {RequestsOf("reference_delete", e, IdTexts(Table(e)), {EmptyForm}) :
                    e \in Entities}
    \cup UNION {RequestsOf("reference_create", e, {<<>>}, ReferenceForms(e, {<<"b">>})) :
                    e \in {"category", "subcategory"}}

NextConc ==
    \E c \in Conns :
        \/ \E req \in ConcRequests : Begin(c, req)
        \/ conn_get_cashflow(c)
        \/ conn_validate(c)
        \/ conn_write_entry(c)
        \/ conn_get_row(c)
        \/ conn_get_parent(c)
        \/ conn_count_dependencies(c)
        \/ conn_write_reference(c)

SpecConc == InitConc /\ [][NextConc]_vars

\* C10: whatever the order in which the steps of two handlers are taken, every
\* stored entry stays chain-consistent and every reference resolves.
C10_ConsistentUnderInterleaving ==
    /\ \A c \in DOMAIN categories : categories[c].type_id \in DOMAIN types
    /\ \A u \in DOMAIN subcategories : subcategories[u].category_id \in DOMAIN categories
    /\ \A e \in DOMAIN cashflows :
          /\ CashflowKeysExist(cashflows[e], statuses, types, categories, subcategories)
          /\ categories[cashflows[e].category_id].type_id = cashflows[e].type_id
          /\ subcategories[cashflows[e].subcategory_id].category_id
                = cashflows[e].category_id

\* an entry was validated and inserted while its category moved to another type
C10_StaleValidation ==
    /\ \E c \in Conns :
          /\ conns[c].req.route = "entries_new"
          /\ conns[c].response = redirect("Entry created")
    /\ \E c \in Conns :
          /\ conns[c].req.route = "reference_edit"
          /\ conns[c].req.entity = "category"
          /\ conns[c].response = render_reference_page(<<Success("Changes saved")>>)
    /\ \E e \in DOMAIN cashflows :
          /\ cashflows[e].category_id \in DOMAIN categories
          /\ categories[cashflows[e].category_id].type_id # cashflows[e].type_id

-----------------------------------------------------------------------------
(* Properties of the interleaved runs (SpecConc), continued.               *)

\* C11: a reference delete or update is never answered by an internal error:
\* a dependent row blocks it with its inline message, also when the row is
\* inserted between the handler's dependency count and its write.
C11_BlockedIsFriendly ==
    \A c \in Conns :
        conns[c].req.route \in {"reference_delete", "reference_edit"}
            => conns[c].response # InternalError

\* a status was counted free, an entry using it was inserted, and the DELETE
\* then failed on the foreign key
C11_DeleteRaced ==
    \E c \in Conns :
        /\ conns[c].req.route = "reference_delete"
        /\ conns[c].req.entity = "status"
        /\ conns[c].response = InternalError
        /\ int(conns[c].req.id).val \in DOMAIN statuses
        /\ \E d \in Conns :
              /\ conns[d].req.route = "entries_new"
              /\ conns[d].response = redirect("Entry created")
              /\ \E e \in DOMAIN cashflows :
                    /\ cashflows[e].status_id = int(conns[c].req.id).val
                    /\ e = seq.cashflows

-----------------------------------------------------------------------------
(* The reference forms in full.  The reference handlers are driven with    *)
(* names that differ only in surrounding blanks and with parents that are  *)
(* missing, unknown or oversized, from the base rows; the edit and delete  *)
(* routes, of references and of entries, are also driven with ids that     *)
(* name no row.                                                            *)

ReferenceNames == {<<"a">>, <<" ", "a">>}

\* the parents a form of the table's children can name
ParentTexts(table) == {<<>>, UnknownId(table), HugeId} \cup IdTexts(table)

FullReferenceForms(entity) ==
    {[EmptyForm EXCEPT !.name = n, !.type_id = t, !.category_id = c] :
        n \in ReferenceNames \cup {<<>>},
        t \in IF entity = "category" THEN ParentTexts("types") ELSE {<<>>},
        c \in IF entity = "subcategory" THEN ParentTexts("categories") ELSE {<<>>}}

NextReference ==
    \/ Idle /\ \E e \in Entities :
                 \E req \in RequestsOf("reference_create", e, {<<>>},
                                       FullReferenceForms(e)) :
                    handle_reference_creation(req)
    \/ Idle /\ \E e \in Entities :
                 \E req \in RequestsOf("reference_edit", e,
                                       IdTexts(Table(e)) \cup {UnknownId(Table(e)), HugeId},
                                       FullReferenceForms(e)) :
                    handle_reference_update(req)
    \/ Idle /\ \E e \in Entities :
                 \E req \in RequestsOf("reference_delete", e,
                                       IdTexts(Table(e)) \cup {UnknownId(Table(e)), HugeId},
                                       {EmptyForm}) :
                    handle_reference_delete(req)
    \/ Idle /\ \E req \in RequestsOf("entries_edit", "entry",
                                     {UnknownId("cashflows"), HugeId}, {EmptyForm}) :
                    view_update_entry(req)
    \/ Idle /\ \E req \in RequestsOf("entries_delete", "entry",
                                     {UnknownId("cashflows"), HugeId}, {EmptyForm}) :
                    view_delete_entry(req)
    \/ Deliver

SpecReference == Init /\ [][NextReference]_vars

-----------------------------------------------------------------------------
(* Properties of the reference tables (Spec, SpecReference).               *)

\* C12: names are unique in their scope: no two statuses and no two types share
\* a name, nor do two categories of a type or two subcategories of a category.
C12_NamesUnique ==
    /\ \A i, j \in DOMAIN statuses : statuses[i].name = statuses[j].name => i = j
    /\ \A i, j \in DOMAIN types : types[i].name = types[j].name => i = j
    /\ \A i, j \in DOMAIN categories :
          (categories[i].name = categories[j].name
           /\ categories[i].type_id = categories[j].type_id) => i = j
    /\ \A i, j \in DOMAIN subcategories :
          (subcategories[i].name = subcategories[j].name
           /\ subcategories[i].category_id = subcategories[j].category_id) => i = j

\* two categories of different types share a name, and moving one of them under
\* the type of the other has just been refused
C12_Witness ==
    /\ request.route = "reference_edit"
    /\ request.entity = "category"
    /\ response = Exists
    /\ RequestId \in DOMAIN categories
    /\ \E j \in DOMAIN categories :
          /\ j # RequestId
          /\ categories[j].name = categories[RequestId].name
          /\ categories[j].type_id # categories[RequestId].type_id
          /\ request.form.type_id = ToText(categories[j].type_id)
          /\ strip(request.form.name) = categories[j].name

\* another category of the same type carries the name
SiblingNamed(id, name) ==
    \E j \in DOMAIN categories \ {id} :
        categories[j].type_id = categories[id].type_id /\ categories[j].name = name

\* C13: a rename of a category (its type left as it is) to the name of a sibling
\* of the same type is answered by the conflict message and changes no table; a
\* rename to a name no sibling of that type uses succeeds and changes that
\* category's name alone.
C13_CategoryRename ==
    [][(/\ Idle
        /\ request'.route = "reference_edit"
        /\ request'.entity = "category"
        /\ int(request'.id).val \in DOMAIN categories
        /\ strip(request'.form.name) # <<>>
        /\ SameInt(parse_int(request'.form.type_id),
                   categories[int(request'.id).val].type_id))
        => LET id == int(request'.id).val
               name == strip(request'.form.name)
           IN  IF SiblingNamed(id, name)
               THEN response' = Exists /\ UNCHANGED dbvars
               ELSE /\ response' = Saved
                    /\ categories' = [categories EXCEPT ![id].name = name]
                    /\ UNCHANGED <<statuses, types, subcategories, cashflows, seq>>
      ]_vars

\* a category was to take the name of a sibling of its type
C13_Witness ==
    /\ request.route = "reference_edit"
    /\ request.entity = "category"
    /\ RequestId \in DOMAIN categories
    /\ SameInt(parse_int(request.form.type_id), categories[RequestId].type_id)
    /\ SiblingNamed(RequestId, strip(request.form.name))
    /\ categories[RequestId].name # strip(request.form.name)
    /\ response = Exists

\* the response is the reference page with one inline error message
InlineError(resp) ==
    /\ resp.status = "200 OK"
    /\ Len(resp.messages) = 1
    /\ resp.messages[1].level = "error"

\* the parent the form of a new category or subcategory names
ParentOf(req) ==
    IF req.entity = "category" THEN parse_int(req.form.type_id)
    ELSE parse_int(req.form.category_id)

\* C14: the creation of a category whose type_id is missing or names no type,
\* or of a subcategory whose category_id is missing or names no category, is
\* answered by an inline error message and inserts no row.
C14_CreateNeedsParent ==
    [][(/\ Idle
        /\ request'.route = "reference_create"
        /\ request'.entity \in {"category", "subcategory"}
        /\ ~HasRow(IF request'.entity = "category" THEN types ELSE categories,
                   ParentOf(request')))
        => (InlineError(response') /\ UNCHANGED dbvars)]_vars

\* the creation of a category under an oversized type id ended in an internal error
C14_OversizedParent ==
    /\ request.route = "reference_create"
    /\ request.entity = "category"
    /\ strip(request.form.name) # <<>>
    /\ Overflows(parse_int(request.form.type_id))
    /\ response = InternalError

-----------------------------------------------------------------------------
(* Properties of the entry forms (SpecValidate), continued.                *)

DaysInMonth(year, month) ==
    IF month \in {4, 6, 9, 11} THEN 30
    ELSE IF month # 2 THEN 31
    ELSE IF year % 4 = 0 /\ (year % 100 # 0 \/ year % 400 = 0) THEN 29
    ELSE 28

\* the text is YYYY-MM-DD and names a day of the calendar
IsCalendarDate(t) ==
    /\ Len(t) = 10
    /\ t[5] = "-" /\ t[8] = "-"
    /\ \A i \in {1, 2, 3, 4, 6, 7, 9, 10} : IsDigit(t[i])
    /\ LET year == DigitsValue(SubSeq(t, 1, 4))
           month == DigitsValue(SubSeq(t, 6, 7))
           day == DigitsValue(SubSeq(t, 9, 10))
       IN  /\ year >= 1
           /\ month \in 1..12
           /\ day \in 1..DaysInMonth(year, month)

\* C16: a form whose recorded_on is not a well-formed calendar date is refused,
\* hence the recorded_on of every stored entry is a calendar date.
C16_DatesAreCalendarDates ==
    \A e \in DOMAIN cashflows : IsCalendarDate(cashflows[e].recorded_on)

\* an entry dated 30 February has been stored
C16_BadDateStored ==
    /\ request.route = "entries_new"
    /\ request.form.recorded_on = Date2
    /\ response = redirect("Entry created")
    /\ \E e \in DOMAIN cashflows : cashflows[e].recorded_on = Date2


\* the rules of validate_entry_form a field breaks by itself: 1 the date,
\* 2 the status, 3 the type, 4 the category, 5 the subcategory, 6 the amount
FieldInvalid(f, form) ==
    CASE f = 1 -> strip(form.recorded_on) = <<>>
      [] f = 2 -> ~HasRow(statuses, parse_int(form.status_id))
      [] f = 3 -> ~HasRow(types, parse_int(form.type_id))
      [] f = 4 -> ~HasRow(categories, parse_int(form.category_id))
      [] f = 5 -> ~HasSubcategory(subcategories, categories, parse_int(form.subcategory_id))
      [] f = 6 -> LET cents == parse_amount(form.amount)
                  IN  cents.kind = "none" \/ (cents.kind = "int" /\ cents.val = 0)

\* the field whose block of validate_entry_form appends the message, 0 for a
\* message that is none of its messages
FieldOf(text) ==
    CASE text = "Operation date is required" -> 1
      [] text \in {"Status is required", "A nonexistent status is selected"} -> 2
      [] text \in {"Type is required", "A nonexistent type is selected"} -> 3
      [] text \in {"Category is required", "A nonexistent category is selected",
                   "The category is not linked to the selected type"} -> 4
      [] text \in {"Subcategory is required", "A nonexistent subcategory is selected",
                   "The subcategory does not belong to the selected category",
                   "The subcategory does not belong to the selected type"} -> 5
      [] text = "Enter a correct amount" -> 6
      [] OTHER -> 0

\* C15: in the answer to an entry create or update, every one of date, status,
\* type, category, subcategory and amount that is invalid has its own message,
\* whatever the other fields are, and the messages come in that field order.
C15_AllViolationsInOrder ==
    (EntryWrite(request) /\ response # NoResponse) =>
        LET fields == [i \in 1..Len(response.messages) |->
                           FieldOf(response.messages[i].text)]
        IN  /\ \A f \in 1..6 :
                   FieldInvalid(f, request.form) => \E i \in DOMAIN fields : fields[i] = f
            /\ \A i, j \in DOMAIN fields : i < j => fields[i] <= fields[j]

\* a form with no date and an oversized status id has ended in an internal
\* error that names neither field
C15_ViolationsLost ==
    /\ request.route = "entries_new"
    /\ FieldInvalid(1, request.form)
    /\ Overflows(parse_int(request.form.status_id))
    /\ response = InternalError

-----------------------------------------------------------------------------
(* Amounts (server.parse_amount).  The runs rewrite the amount of one      *)
(* stored entry with decimal numerals in their dot form, their comma form  *)
(* and their form with a space between the thousands.                      *)

\* digits after the separator, at most
MaxFrac == 3

WholeParts == {<<"0">>, <<"1", "2", "3", "4">>}

\* the digits 0, 4, 5 and 9 after the separator
FracParts == UNION {[1..n -> {"0", "4", "5", "9"}] : n \in 0..MaxFrac}

\* the three ways the decimal is typed: whole, separator, fraction (the whole
\* part alone when there is no fraction) with a dot, with a comma, and with a
\* comma and a space before the last three digits of the whole part
FormsOfDecimal(whole, frac) ==
    LET DecimalForm(w, sep) == IF frac = <<>> THEN w ELSE w \o <<sep>> \o frac
        Spaced == IF Len(whole) > 3
                  THEN SubSeq(whole, 1, Len(whole) - 3) \o <<" ">>
                       \o SubSeq(whole, Len(whole) - 2, Len(whole))
                  ELSE whole
    IN  {DecimalForm(whole, "."), DecimalForm(whole, ","), DecimalForm(Spaced, ",")}

AmountTexts == UNION {FormsOfDecimal(w, f) : w \in WholeParts, f \in FracParts}

\* the entry the amounts are written to
FirstRow == [recorded_on |-> Date1, status_id |-> BaseSeq.statuses,
             type_id |-> BaseSeq.types - 1, category_id |-> BaseSeq.categories,
             subcategory_id |-> BaseSeq.subcategories, amount_cents |-> 500,
             comment |-> <<>>]

AmountForms ==
    EntryForms({Date1}, IdTexts("statuses"), {ToText(BaseSeq.types - 1)},
               IdTexts("categories"), IdTexts("subcategories"), AmountTexts, {<<>>})

InitAmount ==
    /\ statuses = BaseStatuses
    /\ types = BaseTypes
    /\ categories = BaseCategories
    /\ subcategories = BaseSubcategories
    /\ cashflows = (BaseSeq.cashflows + 1) :> FirstRow
    /\ seq = [BaseSeq EXCEPT !.cashflows = @ + 1]
    /\ request = NoRequest
    /\ response = NoResponse
    /\ conns = NoConns

NextAmount ==
    \/ Idle /\ \E req \in RequestsOf("entries_edit", "entry", IdTexts("cashflows"),
                                     AmountForms) :
                    view_update_entry(req)
    \/ Deliver

SpecAmount == InitAmount /\ [][NextAmount]_vars

\* the reference: the hundredths of whole.frac rounded half up, counted from the
\* digits: the whole part times 100, the first two digits of the fraction, and
\* one more when the third digit is 5 or more
RefCents(whole, frac) ==
    DigitsValue(whole) * 100
    + (IF Len(frac) >= 1 THEN 10 * DigitVal(frac[1]) ELSE 0)
    + (IF Len(frac) >= 2 THEN DigitVal(frac[2]) ELSE 0)
    + (IF Len(frac) >= 3 /\ DigitVal(frac[3]) >= 5 THEN 1 ELSE 0)

\* C17: parse_amount is the reference operator: the dot form, the comma form and
\* the form with a thousands space of a decimal all parse to its hundredths
\* rounded half up (a third digit of 5 or more rounds up), and that integer is
\* what the entry holds after the update (a zero is refused as no amount).
C17_ParseAmountIsReference ==
    (request.route = "entries_edit" /\ HasRow(cashflows, int(request.id))) =>
        \A w \in WholeParts, f \in FracParts :
            request.form.amount \in FormsOfDecimal(w, f) =>
                /\ parse_amount(request.form.amount)
                       = [kind |-> "int", val |-> RefCents(w, f), exc |-> ""]
                /\ IF RefCents(w, f) = 0
                   THEN response = BadRequest(<<"Enter a correct amount">>)
                   ELSE /\ response = redirect("Entry updated")
                        /\ cashflows[RequestId].amount_cents = RefCents(w, f)

\* "1 234,995" has been stored as 123500
C17_RoundedUp ==
    /\ request.route = "entries_edit"
    /\ request.form.amount = <<"1", " ", "2", "3", "4", ",", "9", "9", "5">>
    /\ response = redirect("Entry updated")
    /\ cashflows[RequestId].amount_cents = 123500

-----------------------------------------------------------------------------
(* The list of entries (repository.list_cashflows, server.view_index).     *)

\* SQLite's order on the values of recorded_on: an integer is less than any
\* text, integers compare as numbers and texts byte by byte (BINARY collation),
\* a proper prefix being the lesser
SqlLess(a, b) ==
    LET IsInt(x) == x # <<>> /\ x[1] = "#"
        Code(c) == IF c = "-" THEN 45 ELSE 48 + DigitVal(c)
        RECURSIVE TextLess(_, _)
        TextLess(x, y) ==
            IF y = <<>> THEN FALSE
            ELSE IF x = <<>> THEN TRUE
            ELSE IF x[1] = y[1] THEN TextLess(Tail(x), Tail(y))
            ELSE Code(x[1]) < Code(y[1])
    IN  IF IsInt(a) /\ IsInt(b) THEN DigitsValue(Tail(a)) < DigitsValue(Tail(b))
        ELSE IF IsInt(a) THEN TRUE
        ELSE IF IsInt(b) THEN FALSE
        ELSE TextLess(a, b)

\* repository.list_cashflows(filters): raises tells that the statement fails
\* (the joined tables make the bare names type_id and category_id ambiguous:
\* sqlite3.OperationalError), rows are the ids of the rows it returns, in order.
\* The parameters are texts: one compared with recorded_on takes the NUMERIC
\* affinity of the column, one compared with an id counts as the integer it
\* spells.
list_cashflows(filters) ==
    LET Joined(row) ==
            /\ row.status_id \in DOMAIN statuses
            /\ row.type_id \in DOMAIN types
            /\ row.category_id \in DOMAIN categories
            /\ row.subcategory_id \in DOMAIN subcategories
        Equal(text, id) == AllDigits(text) /\ DigitsValue(text) = id
        Where(row) ==
            /\ filters.date_from # <<>>
                   => ~SqlLess(row.recorded_on, NumericAffinity(filters.date_from))
            /\ filters.date_to # <<>>
                   => ~SqlLess(NumericAffinity(filters.date_to), row.recorded_on)
            /\ filters.status_id # <<>> => Equal(filters.status_id, row.status_id)
            /\ filters.subcategory_id # <<>>
                   => Equal(filters.subcategory_id, row.subcategory_id)
        Before(a, b) ==
            \/ SqlLess(cashflows[b].recorded_on, cashflows[a].recorded_on)
            \/ /\ ~SqlLess(cashflows[a].recorded_on, cashflows[b].recorded_on)
               /\ a > b
        RECURSIVE OrderBy(_)
        OrderBy(S) ==
            IF S = {} THEN <<>>
            ELSE LET first == CHOOSE a \in S : \A b \in S \ {a} : Before(a, b)
                 IN  <<first>> \o OrderBy(S \ {first})
    IN  IF filters.type_id # <<>> \/ filters.category_id # <<>>
        THEN [raises |-> TRUE, rows |-> <<>>]
        ELSE [raises |-> FALSE,
              rows |-> OrderBy({e \in DOMAIN cashflows :
                                   Joined(cashflows[e]) /\ Where(cashflows[e])})]

\* GET /: the page of the entries that pass the filters of the query string;
\* html.escape raises on a recorded_on that is an integer
view_index(req) ==
    /\ Handles(req, "index")
    /\ LET listed == list_cashflows(req.form)
       IN  Apply(req, Keep(
               IF listed.raises THEN InternalError
               ELSE IF \E i \in DOMAIN listed.rows :
                          cashflows[listed.rows[i]].recorded_on[1] = "#"
                   THEN InternalError
               ELSE [status |-> "200 OK", messages |-> <<>>, entries |-> listed.rows]))

\* a day written without its leading zeros
Date4 == <<"2", "0", "2", "4", "-", "1", "-", "5">>

\* the query strings: the first, the middle and the last day of a month as the
\* ends of the range, and for each id a stored one and one that is not
ListFilters ==
    LET days == {<<>>, <<"2", "0", "2", "4", "-", "0", "1", "-", "0", "1">>, Date1,
                 <<"2", "0", "2", "4", "-", "0", "1", "-", "3", "1">>}
    IN  [date_from : days, date_to : days,
         status_id : {<<>>, UnknownId("statuses")} \cup IdTexts("statuses"),
         type_id : {<<>>, ToText(BaseSeq.types - 1)},
         category_id : {<<>>} \cup IdTexts("categories"),
         subcategory_id : {<<>>, UnknownId("subcategories")} \cup IdTexts("subcategories")]

NextList ==
    \/ Idle /\ \E req \in RequestsOf("entries_new", "entry", {<<>>},
                              EntryForms({Date1, Date3, Date4}, IdTexts("statuses"),
                                         IdTexts("types"), IdTexts("categories"),
                                         IdTexts("subcategories"), {<<"5">>}, {<<>>})) :
                    view_create_entry(req)
    \/ Idle /\ \E req \in RequestsOf("index", "entry", {<<>>}, ListFilters) :
                    view_index(req)
    \/ Deliver

SpecList == Init /\ [][NextList]_vars

\* the day a text of the form year-month-day names, as year*10000 + month*100
\* + day; -1 when the text has not that form or names no day of the calendar
DayNumber(t) ==
    LET i == IndexOf(t, "-")
        rest == SubSeq(t, i + 1, Len(t))
        j == IndexOf(rest, "-")
        year == SubSeq(t, 1, i - 1)
        month == SubSeq(rest, 1, j - 1)
        day == SubSeq(rest, j + 1, Len(rest))
    IN  IF i = 0 \/ j = 0 THEN 0 - 1
        ELSE IF year = <<>> \/ month = <<>> \/ day = <<>> THEN 0 - 1
        ELSE IF ~(AllDigits(year) /\ AllDigits(month) /\ AllDigits(day)) THEN 0 - 1
        ELSE IF DigitsValue(year) < 1 \/ DigitsValue(month) \notin 1..12 THEN 0 - 1
        ELSE IF DigitsValue(day) \notin 1..DaysInMonth(DigitsValue(year), DigitsValue(month))
            THEN 0 - 1
        ELSE DigitsValue(year) * 10000 + DigitsValue(month) * 100 + DigitsValue(day)

\* C18: the list is ordered by recorded_on descending and, among rows of the
\* same recorded_on, by id descending: of two neighbours of the result that are
\* both dated with a day, the first has the later day, or the same day and the
\* greater id.
C18_ListOrdered ==
    request.route = "index" =>
        LET rows == list_cashflows(request.form).rows
            Day(i) == DayNumber(cashflows[rows[i]].recorded_on)
        IN  \A i \in 1..(Len(rows) - 1) :
                (Day(i) >= 0 /\ Day(i + 1) >= 0) =>
                    \/ Day(i) > Day(i + 1)
                    \/ Day(i) = Day(i + 1) /\ rows[i] > rows[i + 1]

\* the page lists 2024-1-5 above 2024-01-15
C18_EarlierDayFirst ==
    /\ request.route = "index"
    /\ response.status = "200 OK"
    /\ \E i \in 1..(Len(response.entries) - 1) :
          /\ cashflows[response.entries[i]].recorded_on = Date4
          /\ cashflows[response.entries[i + 1]].recorded_on = Date1

\* C19: the list is exactly the stored entries that pass every filter supplied:
\* date_from <= recorded_on <= date_to as days, both ends included, and
\* equality on status_id, type_id, category_id and subcategory_id; a filter left
\* out constrains nothing and no entry that passes is missing.
C19_ListIsFilter ==
    request.route = "index" =>
        LET filters == request.form
            listed == list_cashflows(filters)
            Is(text, id) == text = <<>> \/ (AllDigits(text) /\ DigitsValue(text) = id)
            Passes(row) ==
                /\ filters.date_from # <<>>
                       => /\ DayNumber(row.recorded_on) >= 0
                          /\ DayNumber(filters.date_from) <= DayNumber(row.recorded_on)
                /\ filters.date_to # <<>>
                       => /\ DayNumber(row.recorded_on) >= 0
                          /\ DayNumber(row.recorded_on) <= DayNumber(filters.date_to)
                /\ Is(filters.status_id, row.status_id)
                /\ Is(filters.type_id, row.type_id)
                /\ Is(filters.category_id, row.category_id)
                /\ Is(filters.subcategory_id, row.subcategory_id)
        IN  /\ ~listed.raises
            /\ {listed.rows[i] : i \in DOMAIN listed.rows}
                   = {e \in DOMAIN cashflows : Passes(cashflows[e])}

\* a list filtered by the type of its only entry has ended in an internal error
C19_TypeFilterRaised ==
    /\ request.route = "index"
    /\ request.form.type_id # <<>>
    /\ \E e \in DOMAIN cashflows : cashflows[e].type_id = DigitsValue(request.form.type_id)
    /\ response = InternalError

-----------------------------------------------------------------------------
(* Reading an entry back (repository.get_cashflow), on SpecValidate.       *)

\* repository.get_cashflow(entry_id) on the table flows: the row with its id,
\* or None
get_cashflow(flows, entry_id) ==
    IF entry_id \in DOMAIN flows
    THEN [kind |-> "row", id |-> entry_id, row |-> flows[entry_id]]
    ELSE [kind |-> "none", id |-> 0, row |-> <<>>]

\* C20: every form that validates without errors is created, and get_cashflow
\* of the new id returns exactly the normalized recorded_on, status_id, type_id,
\* category_id, subcategory_id, amount_cents and trimmed comment.
C20_CreateReadRoundTrip ==
    [][(/\ Idle
        /\ request'.route = "entries_new"
        /\ validate_entry_form(request'.form).exc = ""
        /\ validate_entry_form(request'.form).errors = <<>>)
       => (/\ response' = redirect("Entry created")
           /\ get_cashflow(cashflows', seq'.cashflows)
                  = [kind |-> "row", id |-> seq.cashflows + 1,
                     row |-> Payload(validate_entry_form(request'.form).data)])]_vars

\* an entry created with the date 2024 is read back with another recorded_on
C20_DateChanged ==
    /\ request.route = "entries_new"
    /\ request.form.recorded_on = Date3
    /\ response = redirect("Entry created")
    /\ get_cashflow(cashflows, seq.cashflows).kind = "row"
    /\ get_cashflow(cashflows, seq.cashflows).row.recorded_on # Date3

-----------------------------------------------------------------------------
(* Startup (db.ensure_database, run when server.py is imported).  The runs *)
(* start before the first run of the program, on no database; between two  *)
(* requests the process may stop and start again.  A starter name is one   *)
(* token of text.                                                          *)

\* startups that insert rows after the first, at most
MaxReseeds == 1

\* the counters of a database that has never been seeded
NoSeq == [statuses |-> 0, types |-> 0, categories |-> 0, subcategories |-> 0,
          cashflows |-> 0]

\* db.ensure_initial_data: each of statuses, types, categories is filled with
\* its starter rows when SELECT COUNT(*) finds it empty; a starter category is
\* skipped when no type has its type's name
ensure_initial_data ==
    LET Named(table, last, names) ==
            table @@ [i \in (last + 1)..(last + Len(names)) |->
                         [name |-> <<names[i - last]>>]]
        sts == IF DOMAIN statuses = {}
               THEN Named(statuses, seq.statuses, DEFAULT_STATUSES) ELSE statuses
        tys == IF DOMAIN types = {}
               THEN Named(types, seq.types, DEFAULT_TYPES) ELSE types
        RECURSIVE Seed(_, _)
        Seed(todo, acc) ==
            IF todo = <<>> THEN acc
            ELSE LET found == {t \in DOMAIN tys : tys[t].name = <<todo[1][2]>>}
                     category_id == acc.last.categories + 1
                     subcats == todo[1][3]
                 IN  IF found = {} THEN Seed(Tail(todo), acc)
                     ELSE Seed(Tail(todo),
                            [categories |-> acc.categories @@
                                 (category_id :> [name |-> <<todo[1][1]>>,
                                                  type_id |-> CHOOSE t \in found : TRUE]),
                             subcategories |-> acc.subcategories @@
                                 [i \in (acc.last.subcategories + 1)
                                        ..(acc.last.subcategories + Len(subcats)) |->
                                     [name |-> <<subcats[i - acc.last.subcategories]>>,
                                      category_id |-> category_id]],
                             last |-> [acc.last EXCEPT
                                          !.categories = category_id,
                                          !.subcategories = @ + Len(subcats)]])
        seeded == IF DOMAIN categories = {}
                  THEN Seed(DEFAULT_CATEGORIES,
                            [categories |-> categories, subcategories |-> subcategories,
                             last |-> seq])
                  ELSE [categories |-> categories, subcategories |-> subcategories,
                        last |-> seq]
    IN  [statuses |-> sts, types |-> tys, categories |-> seeded.categories,
         subcategories |-> seeded.subcategories,
         seq |-> [seeded.last EXCEPT
                     !.statuses = IF DOMAIN statuses = {}
                                  THEN @ + Len(DEFAULT_STATUSES) ELSE @,
                     !.types = IF DOMAIN types = {} THEN @ + Len(DEFAULT_TYPES) ELSE @]]

\* db.ensure_database: the schema is created if it is not there, then
\* ensure_initial_data; no request is in flight while the process starts
ensure_database ==
    /\ Idle
    /\ seq.statuses + seq.types + seq.categories
           < (1 + MaxReseeds) * (SeededSeq.statuses + SeededSeq.types + SeededSeq.categories)
    /\ statuses' = ensure_initial_data.statuses
    /\ types' = ensure_initial_data.types
    /\ categories' = ensure_initial_data.categories
    /\ subcategories' = ensure_initial_data.subcategories
    /\ seq' = ensure_initial_data.seq
    /\ UNCHANGED <<cashflows, request, response, conns>>

InitStartup ==
    /\ statuses = EmptyTable
    /\ types = EmptyTable
    /\ categories = EmptyTable
    /\ subcategories = EmptyTable
    /\ cashflows = EmptyTable
    /\ seq = NoSeq
    /\ request = NoRequest
    /\ response = NoResponse
    /\ conns = NoConns

\* the program serves only once ensure_database has run; the requests delete
\* the rows the reference page shows
NextStartup ==
    \/ ensure_database
    \/ Idle /\ seq # NoSeq
            /\ \E e \in Entities :
                 \E req \in RequestsOf("reference_delete", e,
                                       {ToText(i) : i \in DOMAIN Keep(NoResponse)[Table(e)]},
                                       {EmptyForm}) :
                    handle_reference_delete(req)
    \/ Deliver

SpecStartup == InitStartup /\ [][NextStartup]_vars

\* C21: the reference rows are seeded once: the startup on no database inserts
\* the starter set (3 statuses, 2 types, 3 categories with their
\* subcategories), and a startup on a database that has been seeded, whatever
\* has since been deleted, leaves every reference table as it is.  (A step
\* that neither takes nor answers a request is a startup.)
C21_SeededOnce ==
    [][(Idle /\ request' = NoRequest) =>
          IF seq = NoSeq
          THEN /\ Cardinality(DOMAIN statuses') = Len(DEFAULT_STATUSES)
               /\ Cardinality(DOMAIN types') = Len(DEFAULT_TYPES)
               /\ Cardinality(DOMAIN categories') = Len(DEFAULT_CATEGORIES)
               /\ Cardinality(DOMAIN subcategories') = SumSubcats(DEFAULT_CATEGORIES)
          ELSE UNCHANGED <<statuses, types, categories, subcategories>>]_vars

\* every starter status has been deleted and a startup has inserted the starter
\* statuses again
C21_SeededAgain ==
    /\ Idle
    /\ seq.statuses = 2 * Len(DEFAULT_STATUSES)
    /\ Cardinality(DOMAIN statuses) = Len(DEFAULT_STATUSES)

-----------------------------------------------------------------------------
(* Entry edits, sequential (SpecValidate) and interleaved (SpecConc).      *)

\* C22: an entry edit overwrites in place: a successful update of entry k
\* leaves the set of entry ids, every other entry and every reference table
\* unchanged, and the seven data fields of entry k are the submitted
\* normalized values.
C22_EditInPlace ==
    [][(Idle /\ request'.route = "entries_edit" /\ response' = redirect("Entry updated"))
       => (/\ DOMAIN cashflows' = DOMAIN cashflows
           /\ \A e \in DOMAIN cashflows \ {int(request'.id).val} :
                  cashflows'[e] = cashflows[e]
           /\ UNCHANGED <<statuses, types, categories, subcategories, seq>>
           /\ cashflows'[int(request'.id).val]
                  = Payload(validate_entry_form(request'.form).data))]_vars

\* an entry has been updated with the date 2024 and holds another recorded_on
C22_DateNotAsSubmitted ==
    /\ request.route = "entries_edit"
    /\ request.form.recorded_on = Date3
    /\ response = redirect("Entry updated")
    /\ cashflows[RequestId].recorded_on # Date3

\* C23: concurrent edits of one entry are last-write-wins: the UPDATE of an
\* edit that reports success leaves the row equal to the full payload of that
\* edit, and when two valid edits of the same entry are the two requests of a
\* run, both report success and the row is the full payload of one of them,
\* never a mixture.
C23_LastWriteWins ==
    /\ [][\A c \in Conns :
             (/\ conns[c].pc = "write_entry"
              /\ conns[c].req.route = "entries_edit"
              /\ conns'[c].response = redirect("Entry updated"))
             => cashflows'[int(conns[c].req.id).val]
                    = Payload(Combine(<<check_recorded_on(conns[c].req.form)>>
                                      \o conns[c].parts
                                      \o <<check_amount(conns[c].req.form),
                                           check_comment(conns[c].req.form)>>).data)]_vars
    /\ [](LET Valid(c) == /\ conns[c].served = 1
                          /\ conns[c].pc = "idle"
                          /\ conns[c].req.route = "entries_edit"
                          /\ validate_entry_form(conns[c].req.form).exc = ""
                          /\ validate_entry_form(conns[c].req.form).errors = <<>>
              Sent(c) == Payload(validate_entry_form(conns[c].req.form).data)
          IN  (/\ Valid(1) /\ Valid(2)
               /\ conns[1].req.id = conns[2].req.id
               /\ HasRow(cashflows, int(conns[1].req.id)))
              => /\ conns[1].response = redirect("Entry updated")
                 /\ conns[2].response = redirect("Entry updated")
                 /\ cashflows[int(conns[1].req.id).val] \in {Sent(1), Sent(2)})

\* two edits of one entry have both reported success, one of them dated 2024,
\* and the row holds the payload of neither
C23_NeitherPayload ==
    /\ \A c \in Conns : /\ conns[c].served = 1
                        /\ conns[c].pc = "idle"
                        /\ conns[c].req.route = "entries_edit"
                        /\ conns[c].response = redirect("Entry updated")
    /\ conns[1].req.id = conns[2].req.id
    /\ conns[1].req.form # conns[2].req.form
    /\ \A c \in Conns :
          cashflows[int(conns[c].req.id).val]
              # Payload(validate_entry_form(conns[c].req.form).data)

-----------------------------------------------------------------------------
(* Reference deletes: what they remove (Spec, SpecConc) and how a missing  *)
(* id is answered (SpecReference).                                         *)

\* C24: requests being served one at a time, a reference delete that reports
\* success removes the addressed row and nothing else: the table of its kind
\* loses that row alone and every other table is unchanged, so ON DELETE
\* CASCADE never removes a row.
C24_DeleteRemovesOneRow ==
    [][(Idle /\ request'.route = "reference_delete" /\ response' = Deleted)
       => LET id == int(request'.id).val
              Only(table, kind) ==
                  IF request'.entity = kind THEN Remove(table, id) ELSE table
          IN  /\ statuses' = Only(statuses, "status")
              /\ types' = Only(types, "type")
              /\ categories' = Only(categories, "category")
              /\ subcategories' = Only(subcategories, "subcategory")
              /\ UNCHANGED <<cashflows, seq>>]_vars

\* a category created in the run has been deleted and the starting category and
\* its subcategory are still there
C24_CategoryAlone ==
    /\ request.route = "reference_delete"
    /\ request.entity = "category"
    /\ RequestId = BaseSeq.categories + 1
    /\ response = Deleted
    /\ categories = BaseCategories
    /\ subcategories = BaseSubcategories

\* C25: whatever the interleaving, a category or a subcategory leaves its table
\* only by the DELETE of a delete request addressed to that very row.
C25_RemovedOnlyWhenAddressed ==
    [][LET Addressed(kind, k) ==
               \E c \in Conns :
                   /\ conns[c].pc = "write_reference"
                   /\ conns'[c].pc = "idle"
                   /\ conns[c].req.route = "reference_delete"
                   /\ conns[c].req.entity = kind
                   /\ int(conns[c].req.id).val = k
       IN  /\ \A k \in DOMAIN categories \ DOMAIN categories' : Addressed("category", k)
           /\ \A k \in DOMAIN subcategories \ DOMAIN subcategories' :
                  Addressed("subcategory", k)]_vars

\* a category creation has reported success, a type delete has reported
\* success, these are the only requests of the run, and the new category is no
\* longer stored
C25_CreatedThenCascaded ==
    \E c, d \in Conns :
        /\ conns[c].served = 1 /\ conns[d].served = 1
        /\ conns[c].req.route = "reference_create"
        /\ conns[c].req.entity = "category"
        /\ conns[c].pc = "idle"
        /\ conns[c].response = Added
        /\ conns[d].req.route = "reference_delete"
        /\ conns[d].req.entity = "type"
        /\ conns[d].pc = "idle"
        /\ conns[d].response = Deleted
        /\ seq.categories \notin DOMAIN categories

\* C26: a delete of a reference id that names no row makes no NotFound check:
\* it reports 'Element deleted' and changes no table; an update of a reference
\* id that names no row, and an update or a delete of an entry id that names no
\* row, are answered 404 Not Found and change no table either.
C26_MissingId ==
    [][(/\ Idle
        /\ request'.route \in {"reference_delete", "reference_edit",
                               "entries_edit", "entries_delete"}
        /\ ~HasRow(Keep(NoResponse)[IF request'.entity = "entry" THEN "cashflows"
                                    ELSE Table(request'.entity)],
                   int(request'.id)))
       => (/\ response' = IF request'.route = "reference_delete" THEN Deleted
                          ELSE not_found
           /\ UNCHANGED dbvars)]_vars

\* the delete of a status id of twenty digits has ended in an internal error
C26_MissingIdCrashed ==
    /\ request.route = "reference_delete"
    /\ request.entity = "status"
    /\ request.id = HugeId
    /\ response = InternalError
=============================================================================
